---------------------------- MODULE Spec2Model ----------------------------
(***************************************************************************)
(* A model of the poker table of dnparadice/casino (src/poker.py,          *)
(* src/player.py, driven by the handlers of src/casino.py): cards, deck,   *)
(* hand evaluation, the AI betting strategy, the betting-round state       *)
(* machine and the showdown.                                               *)
(*                                                                         *)
(* Python objects are records, Python lists are sequences (1-based here,   *)
(* 0-based in the source), None is the value None/NoCard, and an exception *)
(* is the field err of the record an operation returns: once err is set    *)
(* the rest of the operation is skipped, and what was assigned before the  *)
(* raise stays assigned, as in Python.                                     *)
(***************************************************************************)
EXTENDS Integers, Sequences, FiniteSets, TLC

(***************************************************************************)
(* Enumerations (src/poker.py:21-101).                                     *)
(***************************************************************************)
HEARTS == 1
DIAMONDS == 2
CLUBS == 3
SPADES == 4
Suit == <<HEARTS, DIAMONDS, CLUBS, SPADES>>

TWO == 2
ACE == 14
CardRank == TWO..ACE

INITIAL == 0
HIGH_CARD == 1
PAIR == 2
TWO_PAIR == 3
THREE_OF_A_KIND == 4
STRAIGHT == 5
FLUSH == 6
FULL_HOUSE == 7
FOUR_OF_A_KIND == 8
STRAIGHT_FLUSH == 9

OMAHA == "OMAHA"
TEXAS_HOLD_EM == "TEXAS_HOLD_EM"

PRE_DEAL == 0
INITIAL_DEAL == 10
PRE_FLOP_BET == 20
POST_FLOP_BET == 40
POST_TURN_BET == 60
POST_RIVER_BET == 80
SHOWDOWN == 90
END_GAME == 100
GameState == <<PRE_DEAL, INITIAL_DEAL, PRE_FLOP_BET, POST_FLOP_BET,
               POST_TURN_BET, POST_RIVER_BET, SHOWDOWN, END_GAME>>

(***************************************************************************)
(* Generic list helpers.                                                   *)
(***************************************************************************)
\* A value that is used more than once is named by a variable bound over a
\* set of one element: (CHOOSE r \in {body : x \in {e}} : TRUE) is body
\* with x standing for the value of e.  The bindings of a chain are listed
\* below the body, the first one last.

RECURSIVE FlattenFrom(_, _)
FlattenFrom(lists, i) ==
    IF i > Len(lists) THEN <<>> ELSE lists[i] \o FlattenFrom(lists, i + 1)

\* the lists of a list, joined
Flatten(ss) == (CHOOSE r \in {FlattenFrom(lists, 1)
                : lists \in {ss}} : TRUE)

\* list[a:] of Python, a 0-based
SliceFrom(s, a) == IF a >= Len(s) THEN <<>> ELSE SubSeq(s, a + 1, Len(s))
\* list[:b] of Python
SliceTo(s, b) == IF b <= 0 THEN <<>> ELSE SubSeq(s, 1, IF b > Len(s) THEN Len(s) ELSE b)

Reverse(s) == [i \in 1..Len(s) |-> s[Len(s) + 1 - i]]

\* max() of Python over integers: the list must not be empty
SeqMax(s) ==
    (CHOOSE r \in {
       CHOOSE m \in {list[k] : k \in 1..Len(list)} :
          \A k \in 1..Len(list) : list[k] <= m
     : list \in {s}} : TRUE)

\* itertools.combinations(range(n), 2) and (.., 3), as 1-based index tuples
\* in the order itertools yields them
Combinations2(n) ==
    Flatten([i \in 1..n |-> [j \in 1..(n - i) |-> <<i, i + j>>]])
Combinations3(n) ==
    Flatten([i \in 1..n |->
        Flatten([j \in 1..(n - i) |->
            [k \in 1..(n - i - j) |-> <<i, i + j, i + j + k>>]])])

(***************************************************************************)
(* Card, Deck (src/poker.py:262-328).                                      *)
(***************************************************************************)
Card(r, s) == [rank |-> r, suit |-> s]
None == [rank |-> 0, suit |-> 0]

\* Deck.build: for suit in Suit: for rank in CardRank: append
DeckBuild == [i \in 1..52 |-> Card(((i - 1) % 13) + TWO, ((i - 1) \div 13) + 1)]

\* Deck.deal: [self.cards.pop() for _ in range(num_cards)]; pop() of an
\* empty list raises IndexError after the earlier pops have happened
DeckDeal(cards, n) ==
    IF n <= Len(cards)
    THEN [err |-> "none",
          dealt |-> [i \in 1..n |-> cards[Len(cards) + 1 - i]],
          cards |-> SubSeq(cards, 1, Len(cards) - n)]
    ELSE [err |-> "IndexError", dealt |-> <<>>, cards |-> <<>>]

\* Deck.__init__: the deck in play and the cards kept for reset_deck.
\* throw_out_cards is the argument of the constructor of a PartialDeck, which
\* the object does not keep.
DeckInit ==
    [cards |-> DeckBuild, _all_cards |-> DeckBuild, throw_out_cards |-> <<>>]

\* Deck.reset_deck
reset_deck(d) == [d EXCEPT !.cards = d._all_cards]

\* list.remove(card): the list without the first element equal to card
ListRemove(list, card) ==
    (CHOOSE r \in {
       IF hits = {} THEN [err |-> "ValueError", list |-> list]
       ELSE [err |-> "none",
             list |-> (CHOOSE l \in {
                 SubSeq(list, 1, at - 1) \o SubSeq(list, at + 1, Len(list))
               : at \in {CHOOSE i \in hits : \A j \in hits : i <= j}} : TRUE)]
     : hits \in {{i \in 1..Len(list) : list[i] = card}}} : TRUE)

RECURSIVE PartialDeckFrom(_, _, _)
\* the loop of PartialDeck.__init__ from card i of throw_out_cards on
PartialDeckFrom(d, throw_out_cards, i) ==
    IF i > Len(throw_out_cards) THEN [deck |-> d, err |-> "none"]
    ELSE (CHOOSE r \in {
            IF c.err # "none" THEN [deck |-> d, err |-> c.err]
            ELSE PartialDeckFrom(
                     [d EXCEPT !.cards = c.list,
                               !._all_cards =
                                   ListRemove(d._all_cards,
                                              throw_out_cards[i]).list],
                     throw_out_cards, i + 1)
          : c \in {ListRemove(d.cards, throw_out_cards[i])}} : TRUE)

\* PartialDeck.__init__
PartialDeck(throw_out_cards) ==
    PartialDeckFrom([DeckInit EXCEPT !.throw_out_cards = throw_out_cards],
                    throw_out_cards, 1)

(***************************************************************************)
(* Hand (src/poker.py:331-676).                                            *)
(* wc_alias records that winning_cards and straight_cards are the same     *)
(* list object (self.winning_cards = self.straight_cards), so that an      *)
(* append to one is an append to the other.                                *)
(***************************************************************************)
HandInit ==
    [cards |-> <<>>, hand_rank |-> INITIAL, straight_cards |-> <<>>,
     winning_cards |-> <<>>, significant_high_card |-> None,
     wc_alias |-> FALSE]

HandAddCards(h, cards) == [h EXCEPT !.cards = @ \o cards]

HandReset(h) == HandInit

\* the place of cards[i] after a stable sort by rank
PlaceByRank(cards, i) ==
    Cardinality({j \in 1..Len(cards) :
                    \/ cards[j].rank < cards[i].rank
                    \/ cards[j].rank = cards[i].rank /\ j <= i})

\* tmp.sort(key=lambda x: x.rank.value): list.sort is stable
SortByRank(cards) ==
    (CHOOSE r \in {
       [p \in 1..Len(list) |->
           list[CHOOSE i \in 1..Len(list) : PlaceByRank(list, i) = p]]
     : list \in {cards}} : TRUE)

\* a pass of the pair loop that counts every pair after the first
PairStep_any(tmp, i, st) ==
    IF st.pair_count = 0
    THEN [pair_count |-> 1, shc |-> tmp[i],
          wc |-> <<tmp[i], tmp[i + 1]>>, touched |-> TRUE]
    ELSE IF st.pair_count = 1
    THEN [st EXCEPT !.pair_count = 2, !.wc = @ \o <<tmp[i], tmp[i + 1]>>]
    ELSE st

\* what one pass of the pair loop does at a pair tmp[i], tmp[i + 1]
PairStep(tmp, i, st) ==
    (CHOOSE r \in {
       IF s1.pair_count = 1 /\ tmp[i + 1].rank # s1.shc.rank
       THEN [s1 EXCEPT !.pair_count = 2, !.wc = @ \o <<tmp[i], tmp[i + 1]>>]
       ELSE s1
     : s1 \in {IF st.pair_count = 0
               THEN [pair_count |-> 1, shc |-> tmp[i],
                     wc |-> <<tmp[i], tmp[i + 1]>>, touched |-> TRUE]
               ELSE st}} : TRUE)

RECURSIVE PairScan(_, _, _)
\* the pair loop of score_5_or_7_card_hand, from index i on
PairScan(tmp, i, st) ==
    IF i > Len(tmp) - 1 THEN st
    ELSE IF tmp[i].rank # tmp[i + 1].rank THEN PairScan(tmp, i + 1, st)
    ELSE (CHOOSE r \in {PairScan(tmp, i + 1, s2)
          : s2 \in {PairStep(tmp, i, st)}} : TRUE)

\* index of the first run of k equal ranks, 0 when there is none
FirstRun(tmp, k) ==
    LET hits == {i \in 1..(Len(tmp) - k + 1) :
                    \A d \in 1..(k - 1) : tmp[i].rank = tmp[i + d].rank}
    IN IF hits = {} THEN 0 ELSE CHOOSE i \in hits : \A j \in hits : i <= j

\* indexes of all runs of k equal ranks, in increasing order
AllRuns(tmp, k) ==
    {i \in 1..(Len(tmp) - k + 1) :
        \A d \in 1..(k - 1) : tmp[i].rank = tmp[i + d].rank}

\* unique_rank_cards: the first card of every rank, in the order of tmp
UniqueRankCards(tmp) ==
    SelectSeq([i \in 1..Len(tmp) |->
                  IF \E j \in 1..(i - 1) : tmp[j].rank = tmp[i].rank
                  THEN None ELSE tmp[i]],
              LAMBDA c : c # None)

\* index of the first window of `run` cards of consecutive rank, 0 if none
FirstStraight(u, run) ==
    LET hits == {i \in 1..(Len(u) - run + 1) :
                    \A d \in 0..(run - 2) : u[i + d + 1].rank - u[i + d].rank = 1}
    IN IF hits = {} THEN 0 ELSE CHOOSE i \in hits : \A j \in hits : i <= j

SelectSuit(tmp, s) == SelectSeq(tmp, LAMBDA c : c.suit = s)

\* the first suit, in the order of the enumeration, with at least n cards
FirstFlushSuit(tmp, n) ==
    LET hits == {k \in 1..Len(Suit) : Len(SelectSuit(tmp, Suit[k])) >= n}
    IN IF hits = {} THEN 0 ELSE CHOOSE k \in hits : \A j \in hits : k <= j

RECURSIVE SortedSetToSeq(_)
SortedSetToSeq(S) ==
    IF S = {} THEN <<>>
    ELSE LET m == CHOOSE x \in S : \A y \in S : x <= y
         IN <<m>> \o SortedSetToSeq(S \ {m})

\* The steps of score_5_or_7_card_hand.  Each takes the sorted cards tmp and
\* the scoring so far: the hand, the ranks appended, the cards of the three
\* of a kind, the flags straight and flush.
\* high card
ScoreHighCard(h, tmp) ==
    [hand |-> [h EXCEPT !.hand_rank = HIGH_CARD,
                        !.significant_high_card = tmp[Len(tmp)],
                        !.winning_cards = Append(@, tmp[Len(tmp)]),
                        !.straight_cards =
                            IF h.wc_alias THEN Append(@, tmp[Len(tmp)])
                            ELSE @],
     ranks |-> <<HIGH_CARD>>, three |-> <<>>, straight |-> FALSE,
     flush |-> FALSE]

\* pairs
ScorePairs(tmp, s) ==
    (CHOOSE r \in {
       [s EXCEPT !.hand.hand_rank = IF ps.pair_count = 1 THEN PAIR
                                    ELSE IF ps.pair_count = 2 THEN TWO_PAIR
                                    ELSE @,
                 !.hand.significant_high_card = ps.shc,
                 !.hand.winning_cards = ps.wc,
                 !.hand.wc_alias = IF ps.touched THEN FALSE ELSE @,
                 !.ranks = IF ps.pair_count = 1 THEN Append(@, PAIR)
                           ELSE IF ps.pair_count = 2
                           THEN @ \o <<PAIR, TWO_PAIR>>
                           ELSE @]
     : ps \in {PairScan(tmp, 1,
                   [pair_count |-> 0, shc |-> s.hand.significant_high_card,
                    wc |-> s.hand.winning_cards, touched |-> FALSE])}} : TRUE)

\* three of a kind
ScoreThree(tmp, s) ==
    (CHOOSE r \in {
       IF t3 = 0 THEN s
       ELSE [s EXCEPT !.hand.hand_rank = THREE_OF_A_KIND,
                      !.hand.significant_high_card = tmp[t3 + 2],
                      !.hand.winning_cards =
                          <<tmp[t3], tmp[t3 + 1], tmp[t3 + 2]>>,
                      !.hand.wc_alias = FALSE,
                      !.three = <<tmp[t3], tmp[t3 + 1], tmp[t3 + 2]>>,
                      !.ranks = Append(@, THREE_OF_A_KIND)]
     : t3 \in {FirstRun(tmp, 3)}} : TRUE)

\* straight: winning_cards becomes the list object straight_cards
ScoreStraight(tmp, s) ==
    (CHOOSE r \in {
    (CHOOSE r \in {
       IF s5 = 0 THEN s
       ELSE [s EXCEPT !.hand.hand_rank = STRAIGHT,
                      !.hand.straight_cards = SubSeq(u, s5, s5 + 4),
                      !.hand.winning_cards = SubSeq(u, s5, s5 + 4),
                      !.hand.wc_alias = TRUE,
                      !.straight = TRUE,
                      !.ranks = Append(@, STRAIGHT)]
     : s5 \in {FirstStraight(u, 5)}} : TRUE)
     : u \in {UniqueRankCards(tmp)}} : TRUE)

\* flush
ScoreFlush(tmp, s) ==
    (CHOOSE r \in {
       IF fs = 0 THEN s
       ELSE [s EXCEPT !.hand.hand_rank = FLUSH,
                      !.hand.winning_cards = SelectSuit(tmp, Suit[fs]),
                      !.hand.wc_alias = FALSE,
                      !.flush = TRUE,
                      !.ranks = Append(@, FLUSH)]
     : fs \in {FirstFlushSuit(tmp, 5)}} : TRUE)

\* full house: only from the state THREE_OF_A_KIND
ScoreFullHouse(tmp, s) ==
    (CHOOSE r \in {
    (CHOOSE r \in {
       IF fh = <<>> THEN s
       ELSE [s EXCEPT !.hand.hand_rank = FULL_HOUSE,
                      !.hand.winning_cards =
                          s.three \o Flatten([k \in 1..Len(fh) |->
                                       <<lcl[fh[k]], lcl[fh[k] + 1]>>]),
                      !.hand.wc_alias = FALSE,
                      !.ranks = @ \o [k \in 1..Len(fh) |-> FULL_HOUSE]]
     : fh \in {IF s.hand.hand_rank = THREE_OF_A_KIND
               THEN SortedSetToSeq(AllRuns(lcl, 2)) ELSE <<>>}} : TRUE)
     : lcl \in {SelectSeq(tmp, LAMBDA c :
                   c.rank # s.hand.significant_high_card.rank)}} : TRUE)

\* four of a kind
ScoreFour(tmp, s) ==
    (CHOOSE r \in {
       IF f4 = <<>> THEN s
       ELSE (CHOOSE r \in {
               [s EXCEPT !.hand.hand_rank = FOUR_OF_A_KIND,
                         !.hand.significant_high_card = tmp[l4],
                         !.hand.winning_cards =
                             <<tmp[l4], tmp[l4 + 1], tmp[l4 + 2],
                               tmp[l4 + 3]>>,
                         !.hand.wc_alias = FALSE,
                         !.ranks = @ \o [k \in 1..Len(f4) |->
                                            FOUR_OF_A_KIND]]
             : l4 \in {f4[Len(f4)]}} : TRUE)
     : f4 \in {SortedSetToSeq(AllRuns(tmp, 4))}} : TRUE)

\* straight flush
ScoreStraightFlush(tmp, s) ==
    IF /\ s.straight
       /\ s.flush
       /\ \A k \in 1..Len(s.hand.straight_cards) :
             s.hand.straight_cards[k].suit = s.hand.straight_cards[1].suit
    THEN [s EXCEPT !.hand.hand_rank = STRAIGHT_FLUSH,
                   !.hand.winning_cards = s.hand.straight_cards,
                   !.hand.wc_alias = TRUE,
                   !.ranks = Append(@, STRAIGHT_FLUSH)]
    ELSE s

\* score_5_or_7_card_hand: the hand after the call, the returned ranks
score_5_or_7_card_hand(h) ==
    IF h.cards = <<>>
    THEN \* tmp[-1] raises IndexError after hand_rank and ranks were set
         [hand |-> [h EXCEPT !.hand_rank = HIGH_CARD],
          ranks |-> <<HIGH_CARD>>, err |-> "IndexError"]
    ELSE
    (CHOOSE r \in {
    (CHOOSE r \in {
    (CHOOSE r \in {
    (CHOOSE r \in {
    (CHOOSE r \in {
    (CHOOSE r \in {
    (CHOOSE r \in {
    (CHOOSE r \in {
    (CHOOSE r \in {
       [hand |-> s7.hand, ranks |-> s7.ranks, err |-> "none"]
     : s7 \in {ScoreStraightFlush(tmp, s6)}} : TRUE)
     : s6 \in {ScoreFour(tmp, s5)}} : TRUE)
     : s5 \in {ScoreFullHouse(tmp, s4)}} : TRUE)
     : s4 \in {ScoreFlush(tmp, s3)}} : TRUE)
     : s3 \in {ScoreStraight(tmp, s2)}} : TRUE)
     : s2 \in {ScoreThree(tmp, s1)}} : TRUE)
     : s1 \in {ScorePairs(tmp, s0)}} : TRUE)
     : s0 \in {ScoreHighCard(h, tmp)}} : TRUE)
     : tmp \in {SortByRank(h.cards)}} : TRUE)

(***************************************************************************)
(* HandProbability (src/poker.py:104-259).  A probability is an integer    *)
(* number of 1e-8; a weight is an integer number of tenths; a figure of    *)
(* merit is the exact value [whole, frac] = whole + frac * 1e-9, the       *)
(* floats of the source taken as the decimals they are written as.         *)
(***************************************************************************)
HandProbabilityInit ==
    [straight_flush |-> 1390, four_of_a_kind |-> 24010,
     full_house |-> 144058, flush |-> 196540, straight |-> 392465,
     three_of_a_kind |-> 2112845, two_pair |-> 4753902, pair |-> 42256903]

\* the default weights of get_delta_probability_sum, in tenths
DefaultWeights ==
    [straight_flush |-> 10, four_of_a_kind |-> 9, full_house |-> 8,
     flush |-> 7, straight |-> 6, three_of_a_kind |-> 5, two_pair |-> 4,
     pair |-> 3]

\* the order of the if/elif chain of get_delta_probability_sum
RankPriority ==
    <<"straight_flush", "four_of_a_kind", "full_house", "flush", "straight",
      "three_of_a_kind", "two_pair", "pair">>

\* get_delta_probability with the default filter: self minus the defaults
get_delta_probability(hp) ==
    [f \in DOMAIN hp |-> hp[f] - HandProbabilityInit[f]]

\* a delta with ignore_negatives: negative deltas count as 0
ZeroedDelta(hp, f) ==
    IF hp[f] - HandProbabilityInit[f] < 0 THEN 0
    ELSE hp[f] - HandProbabilityInit[f]

RECURSIVE FirstNonZeroTerm(_, _)
\* the if/elif chain of get_delta_probability_sum from rank k on
FirstNonZeroTerm(hp, k) ==
    IF k > Len(RankPriority) THEN 0
    ELSE IF ZeroedDelta(hp, RankPriority[k]) # 0
    THEN ZeroedDelta(hp, RankPriority[k]) * DefaultWeights[RankPriority[k]]
    ELSE FirstNonZeroTerm(hp, k + 1)

\* get_delta_probability_sum(weights=None, ignore_negatives=True), in 1e-9:
\* the weighted value of the first non-zero delta in priority order
get_delta_probability_sum(hp) ==
    (CHOOSE r \in {
                                  FirstNonZeroTerm(probability, 1)
     : probability \in {hp}} : TRUE)

Abs(x) == IF x < 0 THEN -x ELSE x

\* two_card_probability
two_card_probability(pocket_a, pocket_b) ==
    LET hp0 == HandProbabilityInit
        hp1 == IF pocket_a.rank = pocket_b.rank
               THEN [hp0 EXCEPT !.pair = 100000000, !.two_pair = 26900000,
                                !.three_of_a_kind = 11900000,
                                !.full_house = 995000,
                                !.four_of_a_kind = 240000,
                                !.straight = 0, !.straight_flush = 0]
               ELSE hp0
        hp2 == IF pocket_a.suit = pocket_b.suit
               THEN [hp1 EXCEPT !.flush = 840000] ELSE hp1
        hp3 == IF Abs(pocket_a.rank - pocket_b.rank) = 1
               THEN [hp2 EXCEPT !.straight = 1312000,
                                !.straight_flush =
                                    IF pocket_a.suit = pocket_b.suit
                                    THEN 19700 ELSE 0]
               ELSE hp2
    IN hp3

\* three_card_probability
three_card_probability(card_a, card_b, card_c) ==
    LET hp0 == HandProbabilityInit
        card_value_set == {card_a.rank, card_b.rank, card_c.rank}
        hp1 == IF Cardinality(card_value_set) = 1
               THEN [hp0 EXCEPT !.pair = 100000000, !.two_pair = 6100000,
                                !.three_of_a_kind = 100000000,
                                !.four_of_a_kind = 4060000,
                                !.full_house = 6100000,
                                !.straight = 0, !.straight_flush = 0]
               ELSE hp0
        flush == Cardinality({card_a.suit, card_b.suit, card_c.suit}) = 1
        hp2 == IF flush THEN [hp1 EXCEPT !.flush = 3788900] ELSE hp1
        tmp == SortByRank(<<card_a, card_b, card_c>>)
        vals == {card_a.rank, card_b.rank, card_c.rank}
        hp3 == IF Abs(tmp[1].rank - tmp[2].rank) = 1
                  /\ Abs(tmp[2].rank - tmp[3].rank) = 1
               THEN IF 2 \in vals \/ 14 \in vals
                    THEN [hp2 EXCEPT !.straight = 1300000,
                                     !.straight_flush =
                                         IF flush THEN 80000 ELSE @]
                    ELSE IF 3 \in vals \/ 13 \in vals
                    THEN [hp2 EXCEPT !.straight = 2700000,
                                     !.straight_flush =
                                         IF flush THEN 160000 ELSE @]
                    ELSE [hp2 EXCEPT !.straight = 4070000,
                                     !.straight_flush =
                                         IF flush THEN 250000 ELSE @]
               ELSE hp2
    IN hp3

\* four_card_probability
four_card_probability(card_a, card_b, card_c, card_d) ==
    LET hp0 == HandProbabilityInit
        n == Cardinality({card_a.rank, card_b.rank, card_c.rank, card_d.rank})
        hp1 == IF n = 1
               THEN [hp0 EXCEPT !.pair = 100000000, !.two_pair = 0,
                                !.three_of_a_kind = 100000000,
                                !.four_of_a_kind = 100000000,
                                !.full_house = 0, !.straight = 0,
                                !.straight_flush = 0]
               ELSE IF n = 2
               THEN [hp0 EXCEPT !.pair = 100000000, !.two_pair = 100000000]
               ELSE IF n = 3
               THEN [hp0 EXCEPT !.pair = 100000000]
               ELSE hp0
        flush == Cardinality({card_a.suit, card_b.suit, card_c.suit,
                              card_d.suit}) = 1
        hp2 == IF flush THEN [hp1 EXCEPT !.flush = 18000000, !.full_house = 0]
               ELSE hp1
        tmp == SortByRank(<<card_a, card_b, card_c, card_d>>)
        \* the source lists only three of the four cards here
        vals == {card_a.rank, card_b.rank, card_c.rank}
        hp3 == IF Abs(tmp[1].rank - tmp[2].rank) = 1
                  /\ Abs(tmp[2].rank - tmp[3].rank) = 1
                  /\ Abs(tmp[3].rank - tmp[4].rank) = 1
               THEN IF 2 \in vals \/ 14 \in vals
                    THEN [hp2 EXCEPT !.straight = 8300000,
                                     !.straight_flush =
                                         IF flush THEN 2080000 ELSE @]
                    ELSE [hp2 EXCEPT !.straight = 16000000,
                                     !.straight_flush =
                                         IF flush THEN 4100000 ELSE @]
               ELSE hp2
    IN hp3

\* get_n_card_probability: the caller passes 2, 3 or 4 cards
get_n_card_probability(cards) ==
    IF Len(cards) = 2 THEN two_card_probability(cards[1], cards[2])
    ELSE IF Len(cards) = 3
    THEN three_card_probability(cards[1], cards[2], cards[3])
    ELSE four_card_probability(cards[1], cards[2], cards[3], cards[4])

Billion == 1000000000

ZeroSum == [whole |-> 0, frac |-> 0]

\* loop_prob += prob_sum, without leaving 32 bits
SumAdd(acc, term) ==
    LET f == acc.frac + (term % Billion)
    IN [whole |-> acc.whole + (term \div Billion) + (f \div Billion),
        frac |-> f % Billion]

\* two sums added
SumPlus(a, b) ==
    LET f == a.frac + b.frac
    IN [whole |-> a.whole + b.whole + (f \div Billion), frac |-> f % Billion]

RECURSIVE SumRange(_, _, _)
\* the terms lo..hi added up; the arithmetic is exact, so the order in which
\* the loop adds them does not matter
SumRange(terms, lo, hi) ==
    IF lo > hi THEN ZeroSum
    ELSE IF lo = hi
    THEN (CHOOSE r \in {SumAdd(ZeroSum, term)
          : term \in {terms[lo]}} : TRUE)
    ELSE (CHOOSE r \in {
            SumPlus(half[1], half[2])
          : half \in {<<SumRange(terms, lo, (lo + hi) \div 2),
                        SumRange(terms, (lo + hi) \div 2 + 1, hi)>>}} : TRUE)

SumIsZero(x) == x.whole = 0 /\ x.frac = 0
SumIsPositive(x) == x.whole > 0 \/ x.frac > 0
SumGreaterThanOne(x) == x.whole > 1 \/ (x.whole = 1 /\ x.frac > 0)

\* itertools.combinations(cards, 2) as a list of card pairs
CardPairs(cards) ==
    (CHOOSE r \in {
       [k \in 1..Len(c) |-> <<cards[c[k][1]], cards[c[k][2]]>>]
     : c \in {Combinations2(Len(cards))}} : TRUE)

\* the list combination that _get_probability_sum loops over
ProbabilityCombinations(hand_cards, table_cards) ==
    (CHOOSE r \in {
       IF Len(table_cards) = 0 THEN hand_combo
       ELSE IF Len(table_cards) <= 2
       THEN [k \in 1..Len(hand_combo) |-> hand_combo[k] \o table_cards]
       ELSE (CHOOSE r \in {
               Flatten([c \in 1..Len(table_combos) |->
                  [k \in 1..Len(hand_combo) |->
                      hand_combo[k] \o table_combos[c]]])
             : table_combos \in {CardPairs(table_cards)}} : TRUE)
     : hand_combo \in {CardPairs(hand_cards)}} : TRUE)

\* _get_probability_sum: the combinations scored and their sum
_get_probability_sum(hand_cards, table_cards) ==
    (CHOOSE r \in {
    (CHOOSE r \in {
       \* for combo in combination: loop_prob += prob_sum
       SumRange([k \in 1..n |-> get_delta_probability_sum(
                                   get_n_card_probability(combination[k]))],
                1, n)
     : n \in {Len(combination)}} : TRUE)
     : combination \in {ProbabilityCombinations(hand_cards, table_cards)}} : TRUE)

(***************************************************************************)
(* CasinoPlayer, PokerPlayer, AiPokerPlayer (src/player.py,                *)
(* src/poker.py:679-987).  A player is a record; cards_in_hand holds the   *)
(* cards of the player's Hand, whose evaluation fields the table never     *)
(* uses.                                                                   *)
(***************************************************************************)
StartChips == 100

PlayerInit(human) ==
    [chips |-> StartChips, human |-> human, cards_in_hand |-> <<>>,
     current_bet |-> 0, folded |-> FALSE, probability_sum |-> ZeroSum,
     original_bet |-> 0, all_in |-> FALSE]

\* a place_bet without the test of the stack
CasinoPlayer_place_bet_unchecked(p, amount) ==
    [p |-> [p EXCEPT !.chips = @ - amount], err |-> "none"]

\* CasinoPlayer.place_bet
CasinoPlayer_place_bet(p, amount) ==
    IF amount <= p.chips
    THEN [p |-> [p EXCEPT !.chips = @ - amount], err |-> "none"]
    ELSE [p |-> p, err |-> "Not enough chips"]

\* PokerPlayer.place_bet
place_bet(p, amount) ==
    LET r == CasinoPlayer_place_bet(p, amount)
    IN IF r.err # "none" THEN r
       ELSE [p |-> [r.p EXCEPT !.current_bet = @ + amount], err |-> "none"]

\* the multiplier of determine_bet, as the divisor of 1e9 * 100
HasMultiplier(game_state) ==
    game_state \in {PRE_FLOP_BET, POST_FLOP_BET, POST_TURN_BET,
                    POST_RIVER_BET, SHOWDOWN}

\* int(prob_sum * multiplier)
RaiseSize(prob_sum, game_state) ==
    IF game_state = PRE_FLOP_BET
    THEN prob_sum.whole * 100 + (prob_sum.frac \div 10000000)
    ELSE IF game_state = POST_FLOP_BET THEN prob_sum.whole
    ELSE IF game_state = POST_TURN_BET THEN prob_sum.whole \div 2
    ELSE IF game_state = POST_RIVER_BET THEN prob_sum.whole \div 5
    ELSE prob_sum.whole \div 10

\* _get_bet_based_on_probability_sum: the player after the call and the bet
_get_bet_based_on_probability_sum(p, prob_sum, current_bet, game_state) ==
    IF SumIsZero(prob_sum)
    THEN IF p.current_bet = current_bet
         THEN [p |-> p, bet |-> 0]
         ELSE [p |-> [p EXCEPT !.folded = TRUE], bet |-> 0]
    ELSE IF p.current_bet = current_bet
         THEN \* bet = current_bet - self.current_bet = 0; chips -= bet
              [p |-> p, bet |-> 0]
         ELSE LET rs0 == RaiseSize(prob_sum, game_state)
                  rs == IF rs0 < 1 THEN 1 ELSE rs0
              IN [p |-> p, bet |-> current_bet + rs]

\* random.choice over a list that holds one value at its ends only: coin
\* picks the last element or the first
RandomChoice(list, coin) == IF coin THEN list[Len(list)] ELSE list[1]

\* a bet that is never cut down to the stack
AllInAbove_never(bet, chips) == bet

\* if bet > self.chips: bet = self.chips
AllInAbove(bet, chips) == IF bet > chips THEN chips ELSE bet

\* determine_bet: the player after the call, the bet returned, the error
determine_bet(p, table_cards, current_table_bet, game_state, bet_round_number, coin) ==
    IF p.folded
    THEN \* the log line reads multiplier, cards_in_hand, want_to_raise,
         \* which are bound only in the other branch
         [p |-> p, bet |-> 0, err |-> "UnboundLocalError"]
    ELSE IF bet_round_number = 0
    THEN (CHOOSE r \in {
         (CHOOSE r \in {
            IF ~HasMultiplier(game_state)
            THEN [p |-> p1, bet |-> 0, err |-> "UnboundLocalError"]
            ELSE
            (CHOOSE r \in {
            (CHOOSE r \in {
            (CHOOSE r \in {
            (CHOOSE r \in {
            (CHOOSE r \in {
               [p |-> r.p, bet |-> bet, err |-> r.err]
             : r \in {place_bet(p2, bet)}} : TRUE)
             : bet \in {AllInAbove(bet1, p2.chips)}} : TRUE)
             : bet1 \in {IF p2.current_bet # 0
                         THEN IF p2.current_bet > g.bet THEN 0
                              ELSE g.bet - p2.current_bet
                         ELSE g.bet}} : TRUE)
             : p2 \in {[g.p EXCEPT !.original_bet = g.bet]}} : TRUE)
             : g \in {_get_bet_based_on_probability_sum(
                          p1, ps, current_table_bet, game_state)}} : TRUE)
          : p1 \in {[p EXCEPT !.probability_sum = ps]}} : TRUE)
          : ps \in {_get_probability_sum(p.cards_in_hand, table_cards)}} : TRUE)
    ELSE (CHOOSE r \in {
         (CHOOSE r \in {
         (CHOOSE r \in {
         (CHOOSE r \in {
         (CHOOSE r \in {
         (CHOOSE r \in {
         (CHOOSE r \in {
            IF ~HasMultiplier(game_state)
            THEN [p |-> p1, bet |-> bet, err |-> "UnboundLocalError"]
            ELSE (CHOOSE r \in {
                    [p |-> r.p, bet |-> bet, err |-> r.err]
                  : r \in {place_bet(p1, bet)}} : TRUE)
          : bet \in {AllInAbove(bet1, p1.chips)}} : TRUE)
          : p1 \in {IF want_to_fold THEN [p EXCEPT !.folded = TRUE] ELSE p}} : TRUE)
          : bet1 \in {IF raising
                      THEN IF SumGreaterThanOne(p.probability_sum) /\ want_to_raise
                           THEN p.current_bet + 1 ELSE 0
                      ELSE IF want_to_fold THEN 0
                           ELSE current_table_bet - p.current_bet}} : TRUE)
          : want_to_fold \in {~raising /\ RandomChoice(fold, coin)}} : TRUE)
          : fold \in {SliceTo(<<FALSE, FALSE>>
                              \o [k \in 1..bet_round_number |-> TRUE],
                              bet_round_number + 1)}} : TRUE)
          : want_to_raise \in {raising /\ RandomChoice(
                                   <<TRUE>> \o [k \in 1..bet_round_number |-> FALSE], coin)}} : TRUE)
          : raising \in {p.current_bet >= current_table_bet}} : TRUE)

(***************************************************************************)
(* PokerTable (src/poker.py:989-1488).  A table is a record t; t.P maps a  *)
(* player (an index into the list the caller built: the AI players first,  *)
(* then the humans) to its record, the lists of the table hold players.    *)
(***************************************************************************)
\* max() over cards: Card.__gt__ compares ranks, the first maximum is kept
MaxCard(cards) ==
    (CHOOSE r \in {
       list[CHOOSE i \in 1..Len(list) :
               /\ \A j \in 1..Len(list) : list[j].rank <= list[i].rank
               /\ \A j \in 1..(i - 1) : list[j].rank < list[i].rank]
     : list \in {cards}} : TRUE)

\* the 5-card candidates of a seat in the order of the two nested loops
CandidateHands(hand_cards, table_cards) ==
    (CHOOSE r \in {
    (CHOOSE r \in {
       Flatten([a \in 1..Len(hand_pairs) |->
           [b \in 1..Len(table_triplets) |->
               <<hand_cards[hand_pairs[a][1]], hand_cards[hand_pairs[a][2]],
                 table_cards[table_triplets[b][1]],
                 table_cards[table_triplets[b][2]],
                 table_cards[table_triplets[b][3]]>>]])
     : table_triplets \in {Combinations3(Len(table_cards))}} : TRUE)
     : hand_pairs \in {Combinations2(Len(hand_cards))}} : TRUE)

\* one pass of the inner loop body: reset, add, score, max rank, max card
ScoreCandidate(cards_5) ==
    (CHOOSE r \in {
                     [high_rank |-> SeqMax(sc.ranks),
                      high_card |-> MaxCard(sc.hand.winning_cards),
                      hand |-> sc.hand]
     : sc \in {score_5_or_7_card_hand(HandAddCards(HandReset(HandInit), cards_5))}} : TRUE)

\* a test that only ever takes the first candidate of a seat
BeatsRunning_first(high_rank, running_rank) == running_rank = INITIAL

\* the test that replaces the running best of a seat
BeatsRunning(high_rank, running_rank) == high_rank > running_rank

RECURSIVE RunningBest(_, _, _, _)
\* the candidate the running_* values of a seat are taken from after the
\* passes lo..hi of the loop, 0 while running_list is empty; kept is that
\* candidate before pass lo, ranks[k] the high_rank of candidate k.  The
\* passes lo..hi are the passes of the first half followed by the passes of
\* the second half
RunningBest(ranks, lo, hi, kept) ==
    IF lo > hi THEN kept
    ELSE IF lo = hi
    THEN IF BeatsRunning(ranks[lo], IF kept = 0 THEN INITIAL ELSE ranks[kept])
         THEN lo ELSE kept
    ELSE (CHOOSE r \in {
            RunningBest(ranks, (lo + hi) \div 2 + 1, hi, half)
          : half \in {RunningBest(ranks, lo, (lo + hi) \div 2, kept)}} : TRUE)

\* running_list of a seat; set is FALSE when the list stays empty
SeatBest(hand_cards, table_cards) ==
    (CHOOSE r \in {
    (CHOOSE r \in {
    (CHOOSE r \in {
            IF kept = 0
            THEN [set |-> FALSE, rank |-> INITIAL,
                  high_card |-> Card(TWO, DIAMONDS), hand |-> HandInit]
            ELSE [set |-> TRUE, rank |-> scores[kept].high_rank,
                  high_card |-> scores[kept].high_card,
                  hand |-> scores[kept].hand]
     : kept \in {RunningBest([k \in 1..Len(scores) |-> scores[k].high_rank],
                               1, Len(scores), 0)}} : TRUE)
     : scores \in {[k \in 1..Len(cands) |-> ScoreCandidate(cands[k])]}} : TRUE)
     : cands \in {CandidateHands(hand_cards, table_cards)}} : TRUE)

\* a count that takes every card of the hand
HighCardCount_all(l) == Len(l.hand.cards)

\* the number of cards of the hand with the rank of its high card
HighCardCount(l) ==
    Len(SelectSeq(l.hand.cards, LAMBDA c : c.rank = l.high_card.rank))

RECURSIVE CompareSeats(_, _, _)
\* the final loop of get_winning_player_list over player_hands[1:]
CompareSeats(player_hands, k, st) ==
    IF k > Len(player_hands) THEN st
    ELSE LET l == player_hands[k]
             w == st.winning_player_l
         IN (CHOOSE r \in {
                    CompareSeats(player_hands, k + 1, st1)
             : st1 \in {IF l.rank > w.rank
                        THEN [winning_player_l |-> l, tie |-> FALSE, tie_l |-> l]
                        ELSE IF l.rank = w.rank
                                /\ l.high_card.rank > w.high_card.rank
                        THEN [winning_player_l |-> l, tie |-> FALSE, tie_l |-> l]
                        ELSE IF l.rank = w.rank
                                /\ l.high_card.rank = w.high_card.rank
                        THEN IF l.rank = FULL_HOUSE
                             THEN IF HighCardCount(l) = 3
                                  THEN [st EXCEPT !.winning_player_l = l]
                                  ELSE st
                             ELSE [st EXCEPT !.tie = TRUE, !.tie_l = l]
                        ELSE st}} : TRUE)

\* player_hands: the running_list of every seat that has not folded
PlayerHands(P, players, table_cards) ==
    (CHOOSE r \in {
    (CHOOSE r \in {
       SelectSeq(best, LAMBDA l : l.set)
     : best \in {[k \in 1..Len(live) |->
                     (CHOOSE r \in {
                             [player |-> live[k], set |-> b.set,
                              rank |-> b.rank, high_card |-> b.high_card,
                              hand |-> b.hand]
                      : b \in {SeatBest(P[live[k]].cards_in_hand, table_cards)}} : TRUE)]}} : TRUE)
     : live \in {SelectSeq(players, LAMBDA q : ~P[q].folded)}} : TRUE)

\* get_winning_player_list: err, and the winner's list when it returns
get_winning_player_list(P, players, table_cards) ==
    IF Len(players) < 2
    THEN [err |-> "Not enough players", winner |-> <<>>]
    ELSE (CHOOSE r \in {
            IF player_hands = <<>>
            THEN [err |-> "IndexError", winner |-> <<>>]
            ELSE (CHOOSE r \in {
                         IF st.tie
                         THEN [err |-> "There is a tie", winner |-> <<>>]
                         ELSE [err |-> "none",
                               winner |-> <<st.winning_player_l>>]
                  : st \in {CompareSeats(player_hands, 2,
                                [winning_player_l |-> player_hands[1],
                                 tie |-> FALSE, tie_l |-> player_hands[1]])}} : TRUE)
          : player_hands \in {PlayerHands(P, players, table_cards)}} : TRUE)

\* PokerTable.__init__, with the players the caller will pass to new_game
TableInit(deck, P) ==
    [P |-> P, deck |-> deck, players |-> <<>>, human_players |-> <<>>,
     table_cards |-> <<>>, pot |-> 0, ante |-> 0, current_table_bet |-> 0,
     current_game_type |-> OMAHA, game_state |-> PRE_DEAL,
     dealer_position |-> 0, human_has_bet |-> FALSE, betting_order |-> <<>>,
     current_betting_position |-> 0, traversed_betting_order |-> FALSE,
     first_game |-> TRUE, betting_round |-> 0, bet_around_blinds |-> TRUE,
     winning_player |-> 0, winning_hand |-> HandInit, winning_rank |-> INITIAL,
     ai_players |-> <<>>, game_number |-> 0, err |-> "none"]

Raise(t, e) == [t EXCEPT !.err = e]

current_betting_position_increment(t) ==
    IF t.current_betting_position + 1 >= Len(t.betting_order)
    THEN [t EXCEPT !.current_betting_position = 0,
                   !.traversed_betting_order = TRUE]
    ELSE [t EXCEPT !.current_betting_position = @ + 1]

current_betting_position_reset(t) ==
    [t EXCEPT !.current_betting_position = 0, !.traversed_betting_order = TRUE]

current_betting_position_get(t) == t.current_betting_position

\* a check that any bets satisfy
_check_table_call_any(t) == TRUE

_check_table_call(t) ==
    \A k \in 1..Len(t.betting_order) :
        LET p == t.P[t.betting_order[k]]
        IN p.current_bet = t.current_table_bet \/ p.folded

_check_for_players_still_in_the_game(t) ==
    SelectSeq(t.betting_order, LAMBDA q : ~t.P[q].folded)

\* a reset that leaves the bets as they are
reset_current_player_bets_none(t) == t

reset_current_player_bets(t) ==
    [t EXCEPT !.P = [q \in DOMAIN t.P |->
                        IF \E k \in 1..Len(t.players) : t.players[k] = q
                        THEN [t.P[q] EXCEPT !.current_bet = 0] ELSE t.P[q]]]

\* what _bet_around_initial adds to the pot for a seat that stays in
InitialPotShare(t, total_bet) == total_bet

\* what _bet_around_final adds to the pot for a seat that stays in
FinalPotShare(t, total_bet) == t.current_table_bet

\* the body of the for loop of both passes for an AI seat that has not
\* folded; final tells the passes apart
BetOfSeat(t, q, coins, final) ==
    (CHOOSE r \in {
    (CHOOSE r \in {
       IF d.err # "none" THEN Raise(t1, d.err)
       ELSE
       (CHOOSE r \in {
       (CHOOSE r \in {
       (CHOOSE r \in {
          current_betting_position_increment(t2)
        : t2 \in {IF d.p.folded THEN t1
                  ELSE [t3 EXCEPT !.pot = @ +
                           IF final THEN FinalPotShare(t3, total_bet)
                           ELSE InitialPotShare(t3, total_bet)]}} : TRUE)
        : t3 \in {IF total_bet # 0 /\ total_bet > t1.current_table_bet
                  THEN [t1 EXCEPT !.current_table_bet = total_bet]
                  ELSE t1}} : TRUE)
        : total_bet \in {d.p.current_bet}} : TRUE)
     : t1 \in {[t EXCEPT !.P[q] = d.p]}} : TRUE)
     : d \in {determine_bet(t.P[q], t.table_cards, t.current_table_bet,
                            t.game_state, t.betting_round, coins[q])}} : TRUE)

RECURSIVE BetAround(_, _, _, _, _)
\* for player in order[k:]: folded seats are passed over, the first human
\* that has not folded ends the pass
BetAround(t, order, k, coins, final) ==
    IF k > Len(order) \/ t.err # "none" THEN t
    ELSE LET q == order[k]
         IN IF t.P[q].folded THEN BetAround(t, order, k + 1, coins, final)
            ELSE IF t.P[q].human THEN t
            ELSE (CHOOSE r \in {
                    BetAround(t1, order, k + 1, coins, final)
                  : t1 \in {BetOfSeat(t, q, coins, final)}} : TRUE)

_bet_around_initial(t, coins) ==
    (CHOOSE r \in {
       IF t0.bet_around_blinds
       THEN \* past the small and the big blind
            (CHOOSE r \in {
            (CHOOSE r \in {
               BetAround(t1, local_betting_order, 1, coins, FALSE)
             : local_betting_order \in {
                  SliceFrom(t1.betting_order,
                            current_betting_position_get(t1))
                  \o SliceTo(t1.betting_order,
                             current_betting_position_get(t1))}} : TRUE)
             : t1 \in {[current_betting_position_increment(
                           current_betting_position_increment(t0))
                           EXCEPT !.bet_around_blinds = FALSE]}} : TRUE)
       ELSE (CHOOSE r \in {
               BetAround(t0, order, 1, coins, FALSE)
             : order \in {SliceFrom(t0.betting_order,
                                    current_betting_position_get(t0))}} : TRUE)
     : t0 \in {current_betting_position_reset(t)}} : TRUE)

_bet_around_final(t, coins) ==
    (CHOOSE r \in {
                        BetAround(t, order, 1, coins, TRUE)
     : order \in {SliceFrom(t.betting_order, current_betting_position_get(t))}} : TRUE)

\* a winner round that records the winner and pays nothing
_process_winner_round_unpaid(t) ==
    (CHOOSE r \in {
            IF w.err # "none" THEN Raise(t, w.err)
            ELSE LET l == w.winner[1]
                 IN [t EXCEPT !.winning_player = l.player,
                              !.winning_rank = l.rank,
                              !.winning_hand = l.hand]
     : w \in {get_winning_player_list(
                  t.P, _check_for_players_still_in_the_game(t), t.table_cards)}} : TRUE)

_process_winner_round(t) ==
    (CHOOSE r \in {
            IF w.err # "none" THEN Raise(t, w.err)
            ELSE LET l == w.winner[1]
                 IN [t EXCEPT !.winning_player = l.player,
                              !.winning_rank = l.rank,
                              !.winning_hand = l.hand,
                              !.P[l.player].chips = @ + t.pot]
     : w \in {get_winning_player_list(
                  t.P, _check_for_players_still_in_the_game(t), t.table_cards)}} : TRUE)

\* self.table_cards.add_cards(self.deck.deal(n))
DealToTable(t, n) ==
    LET d == DeckDeal(t.deck, n)
    IN IF d.err # "none" THEN Raise([t EXCEPT !.deck = d.cards], d.err)
       ELSE [t EXCEPT !.deck = d.cards, !.table_cards = @ \o d.dealt]

RECURSIVE progress_game(_, _, _)
RECURSIVE _check_players_left_reset_round_and_progress_game(_, _, _)

\* a check that leaves the betting round of the phase as it was
_check_players_left_and_progress_game(t, coinsI, coinsF) ==
    (CHOOSE r \in {
    (CHOOSE r \in {
       IF Len(players_left) > 1
       THEN progress_game(t1, coinsI, coinsF)
       ELSE Raise(t1, "Winner by mass folding!")
     : players_left \in {_check_for_players_still_in_the_game(t1)}} : TRUE)
     : t1 \in {[t EXCEPT !.current_table_bet = 0,
                         !.human_has_bet = FALSE]}} : TRUE)

_check_players_left_reset_round_and_progress_game(t, coinsI, coinsF) ==
    (CHOOSE r \in {
    (CHOOSE r \in {
       IF Len(players_left) > 1
       THEN progress_game(t1, coinsI, coinsF)
       ELSE IF Len(players_left) = 1
       THEN Raise(t1, "Winner by mass folding!")
       ELSE \* players_left[0] of the message, on an empty list
            Raise(t1, "IndexError")
     : players_left \in {_check_for_players_still_in_the_game(t1)}} : TRUE)
     : t1 \in {[t EXCEPT !.betting_round = 0, !.current_table_bet = 0,
                         !.human_has_bet = FALSE]}} : TRUE)

\* the part of progress_game after the betting: if table_call is True
AdvancePhase(t, coinsI, coinsF) ==
    (CHOOSE r \in {
       IF t1.game_state \in {PRE_FLOP_BET, POST_FLOP_BET, POST_TURN_BET}
       THEN (CHOOSE r \in {
                    IF t2.err # "none" THEN t2
                    ELSE _check_players_left_reset_round_and_progress_game(
                             t2, coinsI, coinsF)
             : t2 \in {DealToTable(
                           [t1 EXCEPT !.game_state =
                               IF @ = PRE_FLOP_BET THEN POST_FLOP_BET
                               ELSE IF @ = POST_FLOP_BET THEN POST_TURN_BET
                               ELSE POST_RIVER_BET],
                           IF t1.game_state = PRE_FLOP_BET THEN 3 ELSE 1)}} : TRUE)
       ELSE IF t1.game_state \in {POST_RIVER_BET, SHOWDOWN}
       THEN \* from POST_RIVER_BET the state becomes SHOWDOWN first
            _process_winner_round([t1 EXCEPT !.game_state = SHOWDOWN])
       ELSE t1
     : t1 \in {reset_current_player_bets(t)}} : TRUE)

\* the part of progress_game before that: the table after the betting and
\* the local table_call; coinsI and coinsF are the draws of random.choice
\* of the seats in the initial and in the final pass (a call makes at most
\* one of each)
BettingBlock(t, coinsI, coinsF) ==
    LET table_call0 == _check_table_call(t)
        skip == table_call0 /\ t.betting_round # 0
    IN IF skip THEN [t |-> t, table_call |-> TRUE]
       ELSE IF ~t.human_has_bet
       THEN (CHOOSE r \in {
               [t |-> IF t1.err # "none" THEN t1
                      ELSE [t1 EXCEPT !.human_has_bet = TRUE],
                table_call |-> FALSE]
             : t1 \in {_bet_around_initial(t, coinsI)}} : TRUE)
       ELSE (CHOOSE r \in {
            (CHOOSE r \in {
               IF t1.err # "none" THEN [t |-> t1, table_call |-> FALSE]
               ELSE IF ~_check_table_call(t2)
               THEN [t |-> progress_game(t2, coinsI, coinsF),
                     table_call |-> FALSE]
               ELSE [t |-> t2, table_call |-> TRUE]
             : t2 \in {[t1 EXCEPT !.human_has_bet = FALSE,
                                  !.betting_round = @ + 1]}} : TRUE)
             : t1 \in {_bet_around_final(t, coinsF)}} : TRUE)

\* progress_game
progress_game(t, coinsI, coinsF) ==
    IF current_betting_position_get(t) >= Len(t.betting_order)
    THEN Raise(t, "IndexError")
    ELSE (CHOOSE r \in {
            IF b.table_call THEN AdvancePhase(b.t, coinsI, coinsF) ELSE b.t
          : b \in {BettingBlock(t, coinsI, coinsF)}} : TRUE)

\* new_game; shuffled is the deck random.shuffle leaves, dealer_draw the
\* value of random.randint(0, len(self.players) - 1)
NewGameDealt(t, game_type, ante, ai_players, human_players, shuffled, dealer_draw) ==
    (CHOOSE r \in {
    (CHOOSE r \in {
    (CHOOSE r \in {
    (CHOOSE r \in {
    (CHOOSE r \in {
    (CHOOSE r \in {
    \* the blinds, inside try/except Exception: log.error
    (CHOOSE r \in {
    (CHOOSE r \in {
    (CHOOSE r \in {
    (CHOOSE r \in {
    (CHOOSE r \in {
    (CHOOSE r \in {
    (CHOOSE r \in {
    (CHOOSE r \in {
       IF ~enough THEN Raise(t5, "IndexError") ELSE t6
     : t6 \in {[t5 EXCEPT
                  !.P = [q \in DOMAIN t5.P |->
                            LET ks == {k \in 1..Len(order) : order[k] = q}
                            IN IF ks = {} THEN t5.P[q]
                               ELSE LET k == CHOOSE x \in ks : TRUE
                                    IN [t5.P[q] EXCEPT !.cards_in_hand = @ \o
                                          DeckDeal(SubSeq(t5.deck, 1,
                                              Len(t5.deck)
                                              - (k - 1) * number_of_cards),
                                              number_of_cards).dealt]],
                  !.deck = SubSeq(@, 1, Len(@) - Len(order) * number_of_cards),
                  !.game_state = PRE_FLOP_BET]}} : TRUE)
     : enough \in {Len(order) * number_of_cards <= Len(t5.deck)}} : TRUE)
     : t5 \in {[t4 EXCEPT !.game_state = INITIAL_DEAL]}} : TRUE)
     : number_of_cards \in {IF game_type = OMAHA THEN 4 ELSE 2}} : TRUE)
     : t4 \in {IF b2.err = "none"
               THEN [t3 EXCEPT !.P[order[2]] = b2.p,
                               !.pot = b1.p.current_bet + b2.p.current_bet,
                               !.current_table_bet = b2.p.current_bet]
               ELSE t3}} : TRUE)
     : b2 \in {IF b1.err # "none" THEN b1
               ELSE IF Len(order) >= 2 THEN place_bet(t3.P[order[2]], ante * 2)
               ELSE [p |-> None, err |-> "IndexError"]}} : TRUE)
     : t3 \in {IF b1.err = "none" THEN [t2 EXCEPT !.P[order[1]] = b1.p] ELSE t2}} : TRUE)
     : b1 \in {IF Len(order) >= 1 THEN place_bet(t2.P[order[1]], ante)
               ELSE [p |-> None, err |-> "IndexError"]}} : TRUE)
     : t2 \in {[t1 EXCEPT !.first_game = FALSE, !.dealer_position = dealer,
                          !.betting_order = order]}} : TRUE)
     : order \in {SliceFrom(players, dealer + 1) \o SliceTo(players, dealer + 1)}} : TRUE)
     : dealer \in {IF t1.first_game THEN dealer_draw
                   ELSE (t1.dealer_position + 1) % Len(players)}} : TRUE)
     : t1 \in {[t EXCEPT
                  !.P = [q \in DOMAIN t.P |->
                            IF q \in old
                            THEN [t.P[q] EXCEPT !.cards_in_hand = <<>>,
                                                !.folded = FALSE,
                                                !.all_in = FALSE]
                            ELSE t.P[q]],
                  !.table_cards = <<>>,
                  !.current_game_type = game_type,
                  !.deck = shuffled,
                  !.players = players,
                  !.human_players = human_players,
                  !.pot = 0,
                  !.ante = ante,
                  !.current_table_bet = 0,
                  !.game_state = PRE_DEAL,
                  !.ai_players = ai_players,
                  !.betting_order = <<>>,
                  !.bet_around_blinds = TRUE,
                  !.winning_player = 0,
                  !.winning_rank = INITIAL,
                  !.winning_hand = HandInit,
                  !.game_number = @ + 1,
                  !.current_betting_position = 0,
                  !.traversed_betting_order = TRUE,
                  !.err = "none"]}} : TRUE)
     : players \in {ai_players \o human_players}} : TRUE)
     : old \in {{t.players[k] : k \in 1..Len(t.players)}}} : TRUE)

\* a new_game that lets the exception of a blind pass to its caller
new_game_strict(t, game_type, ante, ai_players, human_players, shuffled, dealer_draw, coinsI, coinsF) ==
    (CHOOSE r \in {
       IF dealt.err # "none" THEN dealt
       ELSE IF dealt.current_table_bet = 0
       THEN Raise(dealt, "Not enough chips")
       ELSE progress_game(dealt, coinsI, coinsF)
     : dealt \in {NewGameDealt(t, game_type, ante, ai_players,
                               human_players, shuffled, dealer_draw)}} : TRUE)

\* new_game: the last statement is self.progress_game()
new_game(t, game_type, ante, ai_players, human_players, shuffled, dealer_draw, coinsI, coinsF) ==
    (CHOOSE r \in {
       IF dealt.err # "none" THEN dealt
       ELSE progress_game(dealt, coinsI, coinsF)
     : dealt \in {NewGameDealt(t, game_type, ante, ai_players,
                               human_players, shuffled, dealer_draw)}} : TRUE)

\* next_game
next_game(t, shuffled, dealer_draw, coinsI, coinsF) ==
    new_game(t, t.current_game_type, t.ante, t.ai_players, t.human_players,
             shuffled, dealer_draw, coinsI, coinsF)

\* what human_bet adds to the pot
HumanPotShare(t, amount) == t.current_table_bet

\* human_bet(amount, human_player_position=0)
human_bet(t, amount) ==
    IF t.human_players = <<>> THEN Raise(t, "bet failed: IndexError")
    ELSE
    LET q == t.human_players[1]
        player == t.P[q]
    IN IF player.all_in \/ player.folded
       THEN current_betting_position_increment(t)
       ELSE
       LET total_bet == amount + player.current_bet
       IN IF total_bet < t.current_table_bet
          THEN Raise(t, "bet failed: you must at least match the current bet")
          ELSE
          LET all_in == amount > player.chips
              amount1 == IF all_in THEN player.chips ELSE amount
              r1 == IF all_in THEN place_bet(player, player.chips)
                    ELSE [p |-> player, err |-> "none"]
              p1 == IF all_in THEN [r1.p EXCEPT !.all_in = TRUE] ELSE r1.p
              r2 == place_bet(p1, amount1)
          IN IF r1.err # "none"
             THEN Raise(t, "bet failed: Not enough chips")
             ELSE IF r2.err # "none"
             THEN Raise([t EXCEPT !.P[q] = p1], "bet failed: Not enough chips")
             ELSE
             LET t1 == [t EXCEPT !.P[q] = r2.p]
                 t2 == IF ~r2.p.folded /\ ~r2.p.all_in
                       THEN [t1 EXCEPT !.current_table_bet = r2.p.current_bet]
                       ELSE t1
                 t3 == [t2 EXCEPT !.pot = @ + HumanPotShare(t2, amount1)]
             IN current_betting_position_increment(t3)

\* button_fold, before its call of progress_game
HumanFold(t) ==
    [t EXCEPT !.P = [q \in DOMAIN t.P |->
                        IF \E k \in 1..Len(t.human_players) :
                               t.human_players[k] = q
                        THEN [t.P[q] EXCEPT !.folded = TRUE] ELSE t.P[q]]]

(***************************************************************************)
(* The session of src/casino.py: one PokerTable, the players of            *)
(* start_poker, the buttons Start Poker Game, Bet, Check and Fold.         *)
(***************************************************************************)
\* bounds of the model
NumAi == 2
MaxRaise == 1
AllInAmount == 1000
MaxClicks == 5
MaxGames == 2
NumShuffles == 2

\* start_poker passes ante 2
Ante == 2

AiPlayers == [k \in 1..NumAi |-> k]
HumanPlayers == <<NumAi + 1>>
AllPlayers == 1..(NumAi + 1)

\* random.shuffle leaves one of these orders of the 52 cards: card i of the
\* built deck goes to place (a * i + b) mod 52
ShuffleSeeds == <<<<21, 11>>, <<9, 3>>, <<7, 3>>, <<25, 8>>, <<1, 3>>, <<25, 5>>>>
Shuffled(seed) ==
    [i \in 1..52 |-> DeckBuild[((seed[1] * (i - 1) + seed[2]) % 52) + 1]]
Shuffles == {Shuffled(ShuffleSeeds[k]) : k \in 1..NumShuffles}

\* the draws of random.choice of one pass, one per AI seat; a pass of the
\* first betting round of a phase draws nothing
Coins == [{AiPlayers[k] : k \in 1..NumAi} -> BOOLEAN]
NoCoins == {[q \in {AiPlayers[k] : k \in 1..NumAi} |-> FALSE]}

VARIABLES
    P,                        \* the player objects
    deck, players, human_players, table_cards, pot, ante, current_table_bet,
    current_game_type, game_state, dealer_position, human_has_bet,
    betting_order, current_betting_position, traversed_betting_order,
    first_game, betting_round, bet_around_blinds, winning_player,
    winning_hand, winning_rank, ai_players, game_number,
    last_call,                \* the last table operation and its error
    clicks,                   \* calls of new_game and progress_game so far
    winner,                   \* what get_winning_player_list returned to a
                              \* caller other than the table
    hand,                     \* the Hand object that a test case builds
    partial_deck,             \* the Deck or PartialDeck of a probability
                              \* calculation
    dealt,                    \* the cards partial_deck.deal returned since
                              \* the last reset_deck
    results                   \* the results of the workers of the pool

vars == <<P, deck, players, human_players, table_cards, pot, ante,
          current_table_bet, current_game_type, game_state, dealer_position,
          human_has_bet, betting_order, current_betting_position,
          traversed_betting_order, first_game, betting_round,
          bet_around_blinds, winning_player, winning_hand, winning_rank,
          ai_players, game_number, last_call, clicks, winner, hand,
          partial_deck, dealt, results>>

\* the table object as a record
T ==
    [P |-> P, deck |-> deck, players |-> players,
     human_players |-> human_players, table_cards |-> table_cards,
     pot |-> pot, ante |-> ante, current_table_bet |-> current_table_bet,
     current_game_type |-> current_game_type, game_state |-> game_state,
     dealer_position |-> dealer_position, human_has_bet |-> human_has_bet,
     betting_order |-> betting_order,
     current_betting_position |-> current_betting_position,
     traversed_betting_order |-> traversed_betting_order,
     first_game |-> first_game, betting_round |-> betting_round,
     bet_around_blinds |-> bet_around_blinds,
     winning_player |-> winning_player, winning_hand |-> winning_hand,
     winning_rank |-> winning_rank, ai_players |-> ai_players,
     game_number |-> game_number, err |-> "none"]

\* the table object after an operation
Becomes(r) ==
    /\ P' = r.P
    /\ deck' = r.deck
    /\ players' = r.players
    /\ human_players' = r.human_players
    /\ table_cards' = r.table_cards
    /\ pot' = r.pot
    /\ ante' = r.ante
    /\ current_table_bet' = r.current_table_bet
    /\ current_game_type' = r.current_game_type
    /\ game_state' = r.game_state
    /\ dealer_position' = r.dealer_position
    /\ human_has_bet' = r.human_has_bet
    /\ betting_order' = r.betting_order
    /\ current_betting_position' = r.current_betting_position
    /\ traversed_betting_order' = r.traversed_betting_order
    /\ first_game' = r.first_game
    /\ betting_round' = r.betting_round
    /\ bet_around_blinds' = r.bet_around_blinds
    /\ winning_player' = r.winning_player
    /\ winning_hand' = r.winning_hand
    /\ winning_rank' = r.winning_rank
    /\ ai_players' = r.ai_players
    /\ game_number' = r.game_number

Call(op, err) == [op |-> op, err |-> err]

\* the table after the operation op that returned r, and the record of it
BecomesAfter(op, r) == Becomes(r) /\ last_call' = Call(op, r.err)

\* The position of a button handler: button_bet, button_check and
\* button_fold call progress_game after human_bet returned without an
\* exception, and after the fold.  While that call is pending no other
\* step can be taken.
ProgressPending ==
    \/ last_call.op = "fold"
    \/ last_call.op = "human_bet" /\ last_call.err = "none"

\* Casino.__init__: PokerTable(); the players are built by start_poker
Init ==
    /\ \E d \in Shuffles :
          LET t == TableInit(d, [q \in AllPlayers |-> PlayerInit(q > NumAi)])
          IN /\ P = t.P
             /\ deck = t.deck
             /\ players = t.players
             /\ human_players = t.human_players
             /\ table_cards = t.table_cards
             /\ pot = t.pot
             /\ ante = t.ante
             /\ current_table_bet = t.current_table_bet
             /\ current_game_type = t.current_game_type
             /\ game_state = t.game_state
             /\ dealer_position = t.dealer_position
             /\ human_has_bet = t.human_has_bet
             /\ betting_order = t.betting_order
             /\ current_betting_position = t.current_betting_position
             /\ traversed_betting_order = t.traversed_betting_order
             /\ first_game = t.first_game
             /\ betting_round = t.betting_round
             /\ bet_around_blinds = t.bet_around_blinds
             /\ winning_player = t.winning_player
             /\ winning_hand = t.winning_hand
             /\ winning_rank = t.winning_rank
             /\ ai_players = t.ai_players
             /\ game_number = t.game_number
    /\ last_call = Call("init", "none")
    /\ clicks = 0
    /\ winner = <<>>
    /\ hand = HandInit
    /\ partial_deck = DeckInit
    /\ dealt = <<>>
    /\ results = <<>>

\* the human of the session and what is missing to their call
Human == HumanPlayers[1]
ToCall ==
    IF current_table_bet > P[Human].current_bet
    THEN current_table_bet - P[Human].current_bet ELSE 0

\* what the entry field of the Bet button holds when it is pressed: nothing
\* (the Check button), the call, a raise of some antes over the call, all
\* chips but one, more than any stack
Amounts ==
    {0, AllInAmount}
    \cup {ToCall + k * Ante : k \in 0..MaxRaise}
    \cup {IF P[Human].chips > 0 THEN P[Human].chips - 1 ELSE 0}

\* the draws a call of progress_game can read: the final pass runs in the
\* current betting round, and no initial pass follows an initial pass
CoinsFinal == IF human_has_bet /\ betting_round # 0 THEN Coins ELSE NoCoins
CoinsInitial == IF betting_round = 0 /\ ~human_has_bet THEN NoCoins ELSE Coins

\* start_poker: new_game for the first game, next_game afterwards
start_poker(t, shuffled, dealer_draw, coinsI, coinsF) ==
    IF t.game_number = 0
    THEN new_game(t, OMAHA, Ante, AiPlayers, HumanPlayers,
                  shuffled, dealer_draw, coinsI, coinsF)
    ELSE next_game(t, shuffled, dealer_draw, coinsI, coinsF)

\* the Start Poker Game button
StartPoker ==
    /\ ~ProgressPending
    /\ clicks < MaxClicks
    /\ game_number < MaxGames
    /\ \E shuffled \in Shuffles :
       \E dealer_draw \in (IF first_game THEN 0..NumAi ELSE {0}) :
       \E coinsI \in CoinsInitial :
       \E coinsF \in CoinsFinal :
       \E r \in {start_poker(T, shuffled, dealer_draw, coinsI, coinsF)} :
          BecomesAfter("new_game", r)
    /\ clicks' = clicks + 1
    /\ UNCHANGED <<winner, hand, partial_deck, dealt, results>>

\* the try block of button_bet (the amount of the entry) and of
\* button_check (amount 0): the call of human_bet
HumanBetWith(amount) ==
    /\ ~ProgressPending
    /\ clicks < MaxClicks
    /\ \E r \in {human_bet(T, amount)} : BecomesAfter("human_bet", r)
    /\ UNCHANGED <<clicks, winner, hand, partial_deck, dealt, results>>

HumanBet == \E amount \in Amounts : HumanBetWith(amount)

\* the loop of button_fold
Fold ==
    /\ ~ProgressPending
    /\ clicks < MaxClicks
    /\ Becomes(HumanFold(T))
    /\ last_call' = Call("fold", "none")
    /\ UNCHANGED <<clicks, winner, hand, partial_deck, dealt, results>>

\* the call of progress_game that ends button_bet, button_check, button_fold
ProgressGame ==
    /\ ProgressPending
    /\ \E coinsI \in CoinsInitial :
       \E coinsF \in CoinsFinal :
       \E r \in {progress_game(T, coinsI, coinsF)} :
          BecomesAfter("progress_game", r)
    /\ clicks' = clicks + 1
    /\ UNCHANGED <<winner, hand, partial_deck, dealt, results>>

Next == StartPoker \/ HumanBet \/ Fold \/ ProgressGame

Spec == Init /\ [][Next]_vars

(***************************************************************************)
(* Properties.                                                             *)
(***************************************************************************)
RECURSIVE SumChips(_, _)
SumChips(chips_of, n) ==
    IF n = 0 THEN 0 ELSE chips_of[n].chips + SumChips(chips_of, n - 1)

\* the chips of all stacks
TotalChips == SumChips(P, NumAi + 1)

\* the human is seated and has to answer: neither folded nor all-in
HumanCanBet ==
    /\ human_players # <<>>
    /\ ~P[Human].folded
    /\ ~P[Human].all_in

\* C1: betting conserves chips: a step of new_game, progress_game or
\* human_bet that does not process a showdown leaves the chips of all
\* stacks plus the pot as they were, the pot counted from 0 when the step is
\* new_game (which resets it); so the pot is what the stacks lost to it.
C1_BettingConservesChips ==
    [][game_state' # SHOWDOWN
       => TotalChips' + pot' =
              IF last_call'.op = "new_game" THEN TotalChips
              ELSE TotalChips + pot]_vars

\* C2: no stack is ever negative.
C2_ChipsNeverNegative == \A q \in AllPlayers : P[q].chips >= 0

\* an AI seat has bet its whole stack in a sweep
C2_StackExhausted ==
    /\ last_call.op = "progress_game"
    /\ \E q \in 1..NumAi : P[q].chips = 0 /\ P[q].current_bet > 0

\* what C3 lists: the pot, the table bet, every stack, bet and flag, the
\* betting cursor
BetFrameUnchanged ==
    /\ pot' = pot
    /\ current_table_bet' = current_table_bet
    /\ current_betting_position' = current_betting_position
    /\ \A q \in AllPlayers :
          /\ P'[q].chips = P[q].chips
          /\ P'[q].current_bet = P[q].current_bet
          /\ P'[q].folded = P[q].folded
          /\ P'[q].all_in = P[q].all_in

\* C3: a call of human_bet that raises an error leaves the pot, the table
\* bet, every player's chips, current bet, folded and all-in flag and the
\* betting cursor as they were.
C3_FailedBetChangesNothing ==
    [][\A amount \in Amounts :
          (HumanBetWith(amount) /\ last_call'.err # "none")
          => BetFrameUnchanged]_vars

\* C4: for a human neither folded nor all-in, human_bet(amount) with amount
\* above the stack and amount + current bet at least the table bet succeeds
\* as an all-in: the stack becomes 0, the current bet grows by the former
\* stack, the all-in flag is set and the cursor advances.
C4_OverbetIsAllIn ==
    [][\A amount \in Amounts :
          (/\ HumanBetWith(amount)
           /\ HumanCanBet
           /\ amount > P[Human].chips
           /\ amount + P[Human].current_bet >= current_table_bet)
          => /\ last_call'.err = "none"
             /\ P'[Human].chips = 0
             /\ P'[Human].current_bet = P[Human].current_bet + P[Human].chips
             /\ P'[Human].all_in
             /\ current_betting_position' =
                    (current_betting_position + 1) % Len(betting_order)]_vars

\* C5: for a human neither folded nor all-in, human_bet(amount) raises an
\* error when amount + current bet is below the table bet, and when
\* amount + current bet equals the table bet it succeeds and leaves the
\* table bet as it was.
C5_MinimumBet ==
    [][\A amount \in Amounts :
          (HumanBetWith(amount) /\ HumanCanBet)
          => /\ amount + P[Human].current_bet < current_table_bet
                => last_call'.err # "none"
             /\ amount + P[Human].current_bet = current_table_bet
                => (last_call'.err = "none"
                    /\ current_table_bet' = current_table_bet)]_vars

\* the seats of a table that have not folded
LiveSeats(t) == {q \in AllPlayers : ~t.P[q].folded}

\* C7: when a call of progress_game ends the game because one seat is left
\* (the mass-fold signal, or the refusal of the showdown to compare fewer
\* than two seats after the river), a seat that has not folded has the pot
\* added to its stack.
C7_MassFoldPaysPot ==
    [][(/\ last_call'.op = "progress_game"
        /\ last_call'.err \in {"Winner by mass folding!", "Not enough players"})
       => \E q \in AllPlayers :
             /\ ~P'[q].folded
             /\ P'[q].chips >= P[q].chips + pot]_vars

\* The table as a call of progress_game hands it to _process_winner_round
\* when the call gets there without a call of itself: either the betting is
\* skipped, or the final pass with the draws coinsF ends with the table
\* called; then the bets of the round are reset and the state is SHOWDOWN.
ShowdownEntry(t, coinsF) ==
    LET skip == _check_table_call(t) /\ t.betting_round # 0
    IN (CHOOSE r \in {
       [reached |-> /\ t.game_state \in {POST_RIVER_BET, SHOWDOWN}
                    /\ current_betting_position_get(t) < Len(t.betting_order)
                    /\ \/ skip
                       \/ t.human_has_bet /\ tb.err = "none"
                          /\ _check_table_call(tb),
        t |-> [reset_current_player_bets(tb) EXCEPT !.game_state = SHOWDOWN]]
        : tb \in {IF skip THEN t
                  ELSE [_bet_around_final(t, coinsF) EXCEPT
                            !.human_has_bet = FALSE, !.betting_round = @ + 1]}} : TRUE)

\* the step is a call of progress_game that gets to the showdown at e, with at
\* least two seats that have not folded, and returns r without an error
ShowdownProcessed(e, r) ==
    /\ e.reached
    /\ Cardinality(LiveSeats(e.t)) >= 2
    /\ r.err = "none"
    /\ Becomes(r)

\* after the step a seat of t that has not folded is the winner, it has the
\* pot of t on top of its stack in t, every other stack is as in t
WinnerPaid(t) ==
    /\ winning_player' \in LiveSeats(t)
    /\ pot' = t.pot
    /\ \A q \in AllPlayers :
          P'[q].chips = t.P[q].chips + IF q = winning_player' THEN t.pot ELSE 0

\* C8: when a call of progress_game processes the showdown of at least two
\* seats that have not folded and no error is raised, one of these seats is
\* recorded as the winner, its stack grows by the pot and no other stack
\* changes.
C8_WinnerTakesPot ==
    [][\A coinsF \in CoinsFinal :
          (/\ ProgressPending
           /\ ShowdownProcessed(ShowdownEntry(T, coinsF),
                                progress_game(T, coinsF, coinsF)))
          => WinnerPaid(ShowdownEntry(T, coinsF).t)]_vars

\* a showdown has been processed and has paid a pot to its winner
C8_ShowdownPaid ==
    /\ last_call.op = "progress_game"
    /\ last_call.err = "none"
    /\ game_state = SHOWDOWN
    /\ winning_player \in AllPlayers
    /\ pot > 0
    /\ Cardinality(LiveSeats(T)) >= 2

(***************************************************************************)
(* A game that is played to its end: the human answers every turn with a   *)
(* check, a call or a fold, the handler runs progress_game, and nothing    *)
(* else happens.  The betting rounds of a phase are counted up to          *)
(* LiveRounds.                                                             *)
(***************************************************************************)
LiveRounds == 3

\* a winner is recorded at the showdown, or the mass-fold signal was given
Terminal ==
    \/ game_state = SHOWDOWN /\ winning_player # 0
    \/ last_call.err = "Winner by mass folding!"

RoundsCapped == betting_round >= LiveRounds

\* the Start Poker Game button, once
LiveStart ==
    /\ last_call.op = "init"
    /\ \E shuffled \in Shuffles :
       \E dealer_draw \in 0..NumAi :
       \E coinsI \in CoinsInitial :
       \E coinsF \in CoinsFinal :
       \E r \in {start_poker(T, shuffled, dealer_draw, coinsI, coinsF)} :
          BecomesAfter("new_game", r)
    /\ UNCHANGED <<clicks, winner, hand, partial_deck, dealt, results>>

\* button_check, or button_bet with what is missing to the call, when
\* human_bet accepts it
LiveBet ==
    /\ game_number > 0
    /\ ~ProgressPending
    /\ ~Terminal
    /\ ~RoundsCapped
    /\ \E amount \in {0, ToCall} :
       \E r \in {human_bet(T, amount)} :
          /\ r.err = "none"
          /\ BecomesAfter("human_bet", r)
    /\ UNCHANGED <<clicks, winner, hand, partial_deck, dealt, results>>

\* button_fold of a human that has not folded
LiveFold ==
    /\ game_number > 0
    /\ ~ProgressPending
    /\ ~Terminal
    /\ ~RoundsCapped
    /\ ~P[Human].folded
    /\ Becomes(HumanFold(T))
    /\ last_call' = Call("fold", "none")
    /\ UNCHANGED <<clicks, winner, hand, partial_deck, dealt, results>>

\* the call of progress_game that ends the handler
LiveProgress ==
    /\ ProgressPending
    /\ \E coinsI \in CoinsInitial :
       \E coinsF \in CoinsFinal :
       \E r \in {progress_game(T, coinsI, coinsF)} :
          BecomesAfter("progress_game", r)
    /\ UNCHANGED <<clicks, winner, hand, partial_deck, dealt, results>>

LiveNext == LiveStart \/ LiveBet \/ LiveFold \/ LiveProgress

\* the human always answers and the handlers run to their end
LiveSpec == Init /\ [][LiveNext]_vars /\ WF_vars(LiveNext)

\* C6: a game that was started and in which the human always answers with a
\* check, a call or a fold followed by progress_game comes to a showdown with
\* a winner recorded or to the mass-fold signal (or to LiveRounds betting
\* rounds in one phase, where the count stops).
C6_GameEnds == (game_number > 0) ~> (Terminal \/ RoundsCapped)

(***************************************************************************)
(* src/examples/poker_examples.py, cases 6 and 7: players and a table that *)
(* are dealt by hand, then get_winning_player_list on a list of players.   *)
(***************************************************************************)
NumExamples == 5

\* deck = Deck(); deck.shuffle()
ExampleDecks == {Shuffled(ShuffleSeeds[k]) : k \in 1..NumExamples}

\* the lists a caller passes: players in the order they were built, any of
\* them left out
PlayerLists == {SortedSetToSeq(S) : S \in SUBSET AllPlayers}

NotDealt ==
    /\ table_cards = <<>>
    /\ \A q \in AllPlayers : P[q].cards_in_hand = <<>>

TableUnchanged ==
    UNCHANGED <<deck, players, human_players, pot, ante, current_table_bet,
                current_game_type, game_state, dealer_position, human_has_bet,
                betting_order, current_betting_position,
                traversed_betting_order, first_game, betting_round,
                bet_around_blinds, winning_player, winning_hand, winning_rank,
                ai_players, game_number, clicks>>

\* case 6: 4 cards to each player, then 5 cards to the table
DealExample ==
    /\ NotDealt
    /\ \E d \in ExampleDecks :
          /\ P' = [q \in AllPlayers |->
                      [PlayerInit(FALSE) EXCEPT !.cards_in_hand =
                          DeckDeal(SubSeq(d, 1, Len(d) - (q - 1) * 4),
                                   4).dealt]]
          /\ table_cards' =
                 DeckDeal(SubSeq(d, 1, Len(d) - Cardinality(AllPlayers) * 4),
                          5).dealt
    /\ last_call' = Call("deal", "none")
    /\ UNCHANGED <<winner, hand, partial_deck, dealt, results>>
    /\ TableUnchanged

\* case 7: good_hand is player 1, ok_hand player 2
DealCase7 ==
    /\ NotDealt
    /\ P' = [q \in AllPlayers |->
                [PlayerInit(FALSE) EXCEPT !.cards_in_hand =
                    IF q = 1
                    THEN <<Card(7, DIAMONDS), Card(3, DIAMONDS),
                           Card(7, HEARTS), Card(8, HEARTS)>>
                    ELSE IF q = 2
                    THEN <<Card(3, SPADES), Card(2, HEARTS),
                           Card(13, DIAMONDS), Card(10, HEARTS)>>
                    ELSE <<>>]]
    /\ table_cards' = <<Card(12, HEARTS), Card(3, CLUBS), Card(8, CLUBS),
                        Card(8, DIAMONDS), Card(12, SPADES)>>
    /\ last_call' = Call("deal", "none")
    /\ UNCHANGED <<winner, hand, partial_deck, dealt, results>>
    /\ TableUnchanged

\* hands and tables built card by card as in case 7: the pocket cards of
\* two players and the five cards of the table
HandDeals ==
    { \* both seats reach a full house of three kings, given by the table
      [hands |-> << <<Card(3, HEARTS), Card(3, DIAMONDS),
                      Card(4, HEARTS), Card(7, DIAMONDS)>>,
                    <<Card(6, CLUBS), Card(6, SPADES),
                      Card(4, DIAMONDS), Card(7, CLUBS)>> >>,
       table |-> <<Card(13, HEARTS), Card(13, DIAMONDS), Card(13, CLUBS),
                   Card(5, HEARTS), Card(9, DIAMONDS)>>],
      \* both seats reach a full house of three twos and a pair of kings
      [hands |-> << <<Card(13, HEARTS), Card(13, DIAMONDS),
                      Card(4, HEARTS), Card(7, DIAMONDS)>>,
                    <<Card(13, CLUBS), Card(13, SPADES),
                      Card(4, DIAMONDS), Card(7, CLUBS)>> >>,
       table |-> <<Card(2, HEARTS), Card(2, DIAMONDS), Card(2, CLUBS),
                   Card(5, HEARTS), Card(9, DIAMONDS)>>],
      \* first hand: three kings and a pair, second: three twos and the kings
      [hands |-> << <<Card(13, CLUBS), Card(3, CLUBS),
                      Card(5, SPADES), Card(7, SPADES)>>,
                    <<Card(2, CLUBS), Card(2, SPADES),
                      Card(6, DIAMONDS), Card(8, DIAMONDS)>> >>,
       table |-> <<Card(13, HEARTS), Card(13, DIAMONDS), Card(2, HEARTS),
                   Card(3, HEARTS), Card(9, CLUBS)>>],
      \* both seats reach three kings with a king of their own
      [hands |-> << <<Card(13, CLUBS), Card(4, HEARTS),
                      Card(7, DIAMONDS), Card(8, HEARTS)>>,
                    <<Card(13, SPADES), Card(4, DIAMONDS),
                      Card(7, CLUBS), Card(8, DIAMONDS)>> >>,
       table |-> <<Card(13, HEARTS), Card(2, DIAMONDS), Card(2, CLUBS),
                   Card(2, SPADES), Card(13, DIAMONDS)>>] }

\* the two hands go to players 1 and 2, in either order
DealByHand ==
    /\ NotDealt
    /\ \E d \in HandDeals, first \in 1..2 :
          /\ P' = [q \in AllPlayers |->
                      [PlayerInit(FALSE) EXCEPT !.cards_in_hand =
                          IF q = first THEN d.hands[1]
                          ELSE IF q = 3 - first THEN d.hands[2]
                          ELSE <<>>]]
          /\ table_cards' = d.table
    /\ last_call' = Call("deal", "none")
    /\ UNCHANGED <<winner, hand, partial_deck, dealt, results>>
    /\ TableUnchanged

\* a player of the list has folded: self.folded = True
SeatFolds ==
    /\ ~NotDealt
    /\ \E q \in AllPlayers :
          /\ ~P[q].folded
          /\ P' = [P EXCEPT ![q].folded = TRUE]
    /\ last_call' = Call("fold", "none")
    /\ UNCHANGED <<table_cards, winner, hand, partial_deck, dealt, results>>
    /\ TableUnchanged

\* what the caller holds after the call on list
Returns(list, r) ==
    /\ winner' = r.winner
    /\ UNCHANGED <<hand, partial_deck, dealt, results>>
    /\ last_call' = [op |-> "get_winning_player_list", err |-> r.err,
                     players |-> list]

\* winner = table.get_winning_player_list(players)
ScoreWinner ==
    /\ ~NotDealt
    /\ \E list \in PlayerLists :
       \E r \in {get_winning_player_list(P, list, table_cards)} :
          Returns(list, r)
    /\ UNCHANGED <<P, table_cards>>
    /\ TableUnchanged

NextWinner ==
    DealExample \/ DealCase7 \/ DealByHand \/ SeatFolds \/ ScoreWinner

SpecWinner == Init /\ [][NextWinner]_vars

\* the ranks and tie-break cards of all combinations of a seat
SeatScores(q) ==
    LET cands == CandidateHands(P[q].cards_in_hand, table_cards)
    IN {[rank |-> ScoreCandidate(cands[k]).high_rank,
         card |-> ScoreCandidate(cands[k]).high_card.rank] :
            k \in 1..Len(cands)}

\* the best rank of a seat over all its combinations
TopRank(q) ==
    LET S == {x.rank : x \in SeatScores(q)}
    IN CHOOSE m \in S : \A x \in S : x <= m

\* the highest tie-break card among the combinations of the top rank
TopTieBreak(q) ==
    LET S == {x.card : x \in {y \in SeatScores(q) : y.rank = TopRank(q)}}
    IN CHOOSE m \in S : \A x \in S : x <= m

\* the seats of the list of the last call that are compared
Compared ==
    {q \in {last_call.players[k] : k \in 1..Len(last_call.players)} :
        /\ ~P[q].folded
        /\ CandidateHands(P[q].cards_in_hand, table_cards) # <<>>}

Returned == last_call.op = "get_winning_player_list" /\ last_call.err = "none"

\* C9: what get_winning_player_list returns is a seat of the list that has
\* not folded, with its best rank over all its combinations of 2 pocket and
\* 3 community cards, and no other seat of the list that has not folded has
\* a better rank.
C9_WinnerHasTopRank ==
    Returned
    => /\ Len(winner) = 1
       /\ winner[1].player \in Compared
       /\ ~P[winner[1].player].folded
       /\ winner[1].rank = TopRank(winner[1].player)
       /\ \A q \in Compared : TopRank(q) <= winner[1].rank

\* a winner is returned from a list with a folded seat and a seat of a
\* lower rank than the winner's
C9_WinnerAmongFolded ==
    /\ Returned
    /\ \E k \in 1..Len(last_call.players) : P[last_call.players[k]].folded
    /\ \E q \in Compared : TopRank(q) < winner[1].rank

\* C10: the combination kept for a seat that is compared has the seat's
\* highest rank, and its tie-break card is the highest tie-break card among
\* the seat's combinations of that rank.
C10_KeptCombinationIsBest ==
    last_call.op = "get_winning_player_list"
    => \A q \in Compared :
          LET kept == SeatBest(P[q].cards_in_hand, table_cards)
          IN /\ kept.rank = TopRank(q)
             /\ kept.high_card.rank = TopTieBreak(q)
\* the combinations the code keeps for the seats that are compared
KeptHands ==
    {[player |-> q, kept |-> SeatBest(P[q].cards_in_hand, table_cards)] :
        q \in Compared}

\* no seat of all has a better kept rank, or the same rank with a higher
\* tie-break card, than l
KeptOnTop(l, all) ==
    \A o \in all :
       \/ o.kept.rank < l.kept.rank
       \/ /\ o.kept.rank = l.kept.rank
          /\ o.kept.high_card.rank <= l.kept.high_card.rank

\* two seats with the same kept rank and the same tie-break card rank
KeptTied(l1, l2) ==
    /\ l1.player # l2.player
    /\ l1.kept.rank = l2.kept.rank
    /\ l1.kept.high_card.rank = l2.kept.high_card.rank

\* the cards of a kept combination that have its tie-break rank
TieBreakCards(l) ==
    {i \in 1..Len(l.kept.hand.cards) :
        l.kept.hand.cards[i].rank = l.kept.high_card.rank}

\* two full houses, the tie-break rank being the triple of l1 only
TripleSideOnly(l1, l2) ==
    /\ l1.kept.rank = FULL_HOUSE
    /\ l2.kept.rank = FULL_HOUSE
    /\ Cardinality(TieBreakCards(l1)) = 3
    /\ Cardinality(TieBreakCards(l2)) # 3

\* C11: whenever two seats that are compared are on top with the same rank
\* and the same tie-break card rank, get_winning_player_list raises the tie
\* error, unless they hold full houses and that rank is the triple in
\* exactly one of the two.
C11_TieRaises ==
    last_call.op = "get_winning_player_list"
    => \A all \in {KeptHands} : \A l1, l2 \in all :
          /\ KeptTied(l1, l2)
          /\ KeptOnTop(l1, all)
          /\ ~TripleSideOnly(l1, l2)
          /\ ~TripleSideOnly(l2, l1)
          => last_call.err = "There is a tie"

\* C12: when the two seats that are compared hold full houses with the same
\* tie-break card rank, and that rank is the triple of one and the pair of
\* the other, get_winning_player_list returns the seat with the triple,
\* whichever of the two comes first in the list.
C12_TripleSideWins ==
    last_call.op = "get_winning_player_list"
    => \A all \in {KeptHands} : \A l1, l2 \in all :
          /\ all = {l1, l2}
          /\ KeptTied(l1, l2)
          /\ TripleSideOnly(l1, l2)
          => /\ last_call.err = "none"
             /\ winner[1].player = l1.player

\* the seat with the triple comes second in the list and is returned
C12_TripleSideSecond ==
    /\ Returned
    /\ last_call.players = <<1, 2>>
    /\ \E l1, l2 \in KeptHands :
          /\ l1.player = 1
          /\ l2.player = 2
          /\ KeptTied(l2, l1)
          /\ TripleSideOnly(l2, l1)
    /\ winner[1].player = 2

\* C13: between two calls of new_game a step leaves game_state as it is or
\* moves it to the state that follows it in the order of GameState, so a
\* call of progress_game advances at most one phase; a call of new_game
\* leaves a state from PRE_DEAL to PRE_FLOP_BET, or POST_FLOP_BET when its
\* call of progress_game advanced.
C13_OnePhaseAtATime ==
    [][IF game_number' = game_number
       THEN \/ game_state' = game_state
            \/ \E k \in 1..(Len(GameState) - 1) :
                  game_state = GameState[k] /\ game_state' = GameState[k + 1]
       ELSE \E k \in 1..4 : game_state' = GameState[k]]_vars

\* progress_game returned with the turn on the table
C13_TurnReached ==
    /\ last_call.op = "progress_game"
    /\ game_state = POST_TURN_BET
    /\ Len(table_cards) = 4

\* the table new_game hands to its call of progress_game when the Start
\* Poker Game button is pressed now
DealtBy(shuffled, dealer_draw) ==
    IF game_number = 0
    THEN NewGameDealt(T, OMAHA, Ante, AiPlayers, HumanPlayers,
                      shuffled, dealer_draw)
    ELSE NewGameDealt(T, current_game_type, ante, ai_players, human_players,
                      shuffled, dealer_draw)

\* the values random.randint can give new_game
DealerDraws == IF first_game THEN 0..NumAi ELSE {0}

\* C14: when the first two seats of the betting order can afford the
\* blinds, new_game takes exactly the ante from the first and twice the ante
\* from the second, and hands progress_game a pot of three antes and a table
\* bet of two antes, in the first game and in every later one.
C14_BlindsPosted ==
    ~ProgressPending
    => \A shuffled \in Shuffles : \A dealer_draw \in DealerDraws :
       \A d \in {DealtBy(shuffled, dealer_draw)} :
          d.err = "none"
          => LET small == d.betting_order[1]
                 big == d.betting_order[2]
             IN /\ P[small].chips >= d.ante
                /\ P[big].chips >= 2 * d.ante
                => /\ d.P[small].chips = P[small].chips - d.ante
                   /\ d.P[big].chips = P[big].chips - 2 * d.ante
                   /\ d.pot = 3 * d.ante
                   /\ d.current_table_bet = 2 * d.ante

\* C15: a call of new_game or next_game that returns without an exception
\* leaves the table in PRE_FLOP_BET with no card on the table.
C15_NewGameIsPreFlop ==
    [][last_call'.op = "new_game" /\ last_call'.err = "none"
       => game_state' = PRE_FLOP_BET /\ table_cards' = <<>>]_vars

\* the chips the seats have paid when new_game calls progress_game
PaidIn(d, n) == SumChips(P, n) - SumChips(d.P, n)

\* C16: when next_game has reset the table and dealt, before its sweep,
\* every seat holds exactly the pocket cards of the new deal (4 in Omaha,
\* otherwise 2), no seat is folded or all-in, the current bet of a seat is
\* what it paid as a blind of this game, the pot holds no more than the
\* blinds paid, and no stack changed except by the blind its seat paid.
C16_NextGameResets ==
    game_number > 0 /\ ~ProgressPending
    => \A shuffled \in Shuffles : \A dealer_draw \in DealerDraws :
       \A d \in {DealtBy(shuffled, dealer_draw)} :
          d.err = "none"
          => /\ \A q \in AllPlayers :
                  /\ Len(d.P[q].cards_in_hand)
                        = IF d.current_game_type = OMAHA THEN 4 ELSE 2
                  /\ \A i \in 1..Len(d.P[q].cards_in_hand) :
                        /\ \E j \in 1..Len(shuffled) :
                              shuffled[j] = d.P[q].cards_in_hand[i]
                        /\ \A j \in 1..Len(d.deck) :
                              d.deck[j] # d.P[q].cards_in_hand[i]
                  /\ ~d.P[q].folded
                  /\ ~d.P[q].all_in
                  /\ d.P[q].current_bet = P[q].chips - d.P[q].chips
                  /\ P[q].chips - d.P[q].chips
                        \in {0, IF q = d.betting_order[1] THEN d.ante
                                 ELSE IF q = d.betting_order[2]
                                 THEN 2 * d.ante ELSE 0}
             /\ d.table_cards = <<>>
             /\ d.pot <= PaidIn(d, NumAi + 1)

\* new_game is called and a seat that has to post a blind cannot afford it
ShortBlind ==
    /\ last_call'.op = "new_game"
    /\ Len(betting_order') >= 2
    /\ \/ P[betting_order'[1]].chips < ante'
       \/ P[betting_order'[2]].chips < 2 * ante'

CommunityCardsOfPhase ==
    /\ game_state = PRE_FLOP_BET => Len(table_cards) = 0
    /\ game_state = POST_FLOP_BET => Len(table_cards) = 3
    /\ game_state = POST_TURN_BET => Len(table_cards) = 4
    /\ game_state \in {POST_RIVER_BET, SHOWDOWN} => Len(table_cards) = 5

\* a step in which a betting round was called: the game moved to its next
\* phase
RoundCalled ==
    \/ game_number' = game_number /\ game_state' # game_state
    \/ game_number' # game_number /\ game_state' = POST_FLOP_BET

\* the current bets were cleared when the round was called: at the showdown
\* they are 0, in the other phases a seat's current bet holds no more than
\* the chips the seat paid in the step (the sweep of the new phase follows
\* the call in the same step)
BetsCleared ==
    \A q \in AllPlayers :
       IF game_state' = SHOWDOWN THEN P'[q].current_bet = 0
       ELSE P'[q].current_bet <= P[q].chips - P'[q].chips

MaxRound == 2

\* the phases a bet is asked for, with the cards their table holds
BetPhases ==
    {[game_state |-> PRE_FLOP_BET, cards |-> 0],
     [game_state |-> POST_FLOP_BET, cards |-> 3],
     [game_state |-> POST_TURN_BET, cards |-> 4],
     [game_state |-> POST_RIVER_BET, cards |-> 5]}

\* current_bet of the call: nothing, the big blind of ante 2
TableBets == {0, 2 * Ante}

\* what the player has bet before: nothing, a blind, more than the table
CurrentBets == {0, Ante, 2 * Ante, 5 * Ante}

\* the stack of the player: as built, or less than the big blind
Stacks == {StartChips, 2 * Ante - 1}

\* everything of the table that case 5 leaves as PokerTable() built it
BetFrame ==
    UNCHANGED <<deck, players, human_players, pot, ante, current_game_type,
                dealer_position, human_has_bet, betting_order,
                current_betting_position, traversed_betting_order,
                first_game, betting_round, bet_around_blinds, winning_player,
                winning_hand, winning_rank, ai_players, game_number, clicks,
                winner, hand, partial_deck, dealt, results>>

\* the players get 4 cards of a shuffled deck and a current bet, the table
\* the cards of its phase
BetExample ==
    /\ NotDealt
    /\ \E d \in ExampleDecks, phase \in BetPhases, table_bet \in TableBets,
          bet \in CurrentBets, chips \in Stacks :
          /\ P' = [q \in AllPlayers |->
                      [PlayerInit(FALSE) EXCEPT
                          !.cards_in_hand =
                              DeckDeal(SubSeq(d, 1, Len(d) - (q - 1) * 4),
                                       4).dealt,
                          !.current_bet = bet,
                          !.chips = chips]]
          /\ table_cards' =
                 DeckDeal(SubSeq(d, 1, Len(d) - Cardinality(AllPlayers) * 4),
                          phase.cards).dealt
          /\ game_state' = phase.game_state
          /\ current_table_bet' = table_bet
    /\ last_call' = Call("deal", "none")
    /\ BetFrame

\* player.folded = True
BetSeatFolds ==
    /\ last_call.op = "deal"
    /\ \E q \in AllPlayers : P' = [P EXCEPT ![q].folded = TRUE]
    /\ last_call' = Call("fold", "none")
    /\ UNCHANGED <<table_cards, game_state, current_table_bet>>
    /\ BetFrame

\* bet_amount = player.determine_bet(table_cards, current_bet, ...,
\* game_state, bet_round_number); coin is the draw of random.choice
DetermineBet ==
    /\ last_call.op \in {"deal", "fold"}
    /\ \E q \in AllPlayers, bet_round_number \in 0..MaxRound, coin \in BOOLEAN :
       \E r \in {determine_bet(P[q], table_cards, current_table_bet,
                               game_state, bet_round_number, coin)} :
          /\ P' = [P EXCEPT ![q] = r.p]
          /\ last_call' = [op |-> "determine_bet", err |-> r.err,
                           player |-> q, bet |-> r.bet,
                           bet_round_number |-> bet_round_number]
    /\ UNCHANGED <<table_cards, game_state, current_table_bet>>
    /\ BetFrame

NextBet == BetExample \/ BetSeatFolds \/ DetermineBet

SpecBet == Init /\ [][NextBet]_vars

\* the player of the call that a step makes, before the call
Bettor == P[last_call'.player]

\* C19: determine_bet on a player that has folded returns 0 without an
\* exception and leaves the chips and the current bet of the player as they
\* were, in every game state and betting round.
C19_FoldedBetsNothing ==
    [][last_call'.op = "determine_bet" /\ Bettor.folded
       => /\ last_call'.err = "none"
          /\ last_call'.bet = 0
          /\ P'[last_call'.player].chips = Bettor.chips
          /\ P'[last_call'.player].current_bet = Bettor.current_bet]_vars

\* round(F x multiplier of the phase) for a figure of merit F, a half
\* rounded up
Rounded(F, phase) ==
    IF phase = PRE_FLOP_BET
    THEN F.whole * 100 + (F.frac \div 10000000)
         + (IF F.frac % 10000000 >= 5000000 THEN 1 ELSE 0)
    ELSE IF phase = POST_FLOP_BET
    THEN F.whole + (IF 2 * F.frac >= Billion THEN 1 ELSE 0)
    ELSE IF phase = POST_TURN_BET
    THEN (F.whole \div 2) + (IF F.whole % 2 = 1 THEN 1 ELSE 0)
    ELSE IF phase = POST_RIVER_BET
    THEN (F.whole \div 5)
         + (IF \/ F.whole % 5 >= 3
               \/ F.whole % 5 = 2 /\ 2 * F.frac >= Billion
            THEN 1 ELSE 0)
    ELSE (F.whole + 5) \div 10

\* what the claim lets the seat raise by
RaiseBy(F, phase) == IF Rounded(F, phase) < 1 THEN 1 ELSE Rounded(F, phase)

\* C20: in betting round 0 a seat that has not folded, with figure of merit
\* F and chips to spare, checks (bets 0 and stays in) when F <= 0 and its
\* current bet equals the table bet, folds when F <= 0 and the bets differ,
\* bets 0 when F > 0 and the bets are equal, and otherwise raises so that
\* its total bet is the table bet plus max(1, round(F x multiplier)).
C20_FirstRoundDecision ==
    [][/\ last_call'.op = "determine_bet"
       /\ last_call'.bet_round_number = 0
       /\ ~Bettor.folded
       => \A F \in {_get_probability_sum(Bettor.cards_in_hand, table_cards)} :
          \A after \in {P'[last_call'.player]} :
             Bettor.chips >= current_table_bet + RaiseBy(F, game_state)
             => /\ last_call'.err = "none"
                /\ IF Bettor.current_bet = current_table_bet
                   THEN /\ last_call'.bet = 0
                        /\ ~after.folded
                        /\ after.chips = Bettor.chips
                   ELSE IF ~SumIsPositive(F)
                   THEN /\ after.folded
                        /\ last_call'.bet = 0
                   ELSE /\ ~after.folded
                        /\ after.current_bet
                              = current_table_bet + RaiseBy(F, game_state)]_vars

\* the bet determine_bet arrives at before it looks at the stack: in round
\* 0 the raise over the table bet less what the seat has bet, in a later
\* round the call of a seat that is behind and does not fold; 0 otherwise
ComputedBet(after) ==
    IF last_call'.bet_round_number = 0
    THEN IF /\ SumIsPositive(after.probability_sum)
            /\ Bettor.current_bet # current_table_bet
            /\ Bettor.current_bet <= after.original_bet
         THEN after.original_bet - Bettor.current_bet ELSE 0
    ELSE IF Bettor.current_bet < current_table_bet /\ ~after.folded
         THEN current_table_bet - Bettor.current_bet ELSE 0

\* C21: determine_bet on a seat that has not folded raises no exception
\* and bets no more than the seat's chips: a computed bet above the stack
\* becomes the stack, which is then 0, in round 0 and in later rounds.
C21_BetWithinStack ==
    [][last_call'.op = "determine_bet" /\ ~Bettor.folded
       => \A after \in {P'[last_call'.player]} :
             /\ last_call'.err = "none"
             /\ last_call'.bet <= Bettor.chips
             /\ after.chips = Bettor.chips - last_call'.bet
             /\ ComputedBet(after) > Bettor.chips
                => last_call'.bet = Bettor.chips /\ after.chips = 0]_vars

\* a seat went all-in by determine_bet in round 0
C21_AllInFirstRound ==
    /\ last_call.op = "determine_bet"
    /\ last_call.err = "none"
    /\ last_call.bet_round_number = 0
    /\ last_call.bet = 2 * Ante - 1
    /\ P[last_call.player].chips = 0

(***************************************************************************)
(* src/test.py: a test case builds a list of cards, shuffles it, adds it   *)
(* to a new Hand and scores the hand.                                      *)
(***************************************************************************)
NumOrders == 2
MaxScores == 2

\* the cards the hands are built of, in the order of Deck.build: the ranks
\* 2..6 and the ace in hearts and spades, and the 2 of diamonds and of clubs
TestCards ==
    [k \in 1..5 |-> Card(TWO + k - 1, HEARTS)] \o <<Card(ACE, HEARTS)>>
    \o <<Card(TWO, DIAMONDS), Card(TWO, CLUBS)>>
    \o [k \in 1..5 |-> Card(TWO + k - 1, SPADES)] \o <<Card(ACE, SPADES)>>

\* the sizes of the lists a test builds
HandSizes == 0..7

\* cards = [...]: some of the cards, in the order of TestCards
TestHands ==
    {(CHOOSE r \in {[i \in 1..Len(ix) |-> TestCards[ix[i]]]
      : ix \in {SortedSetToSeq(S)}} : TRUE)
     : S \in {X \in SUBSET (1..Len(TestCards)) : Cardinality(X) \in HandSizes}}

\* shuffle(cards): the list as built, reversed, or cut at place k - 2
Ordered(cards, k) ==
    IF k = 1 THEN cards
    ELSE IF k = 2 THEN Reverse(cards)
    ELSE SliceFrom(cards, k - 2) \o SliceTo(cards, k - 2)

\* everything but the hand of the test
HandFrame ==
    UNCHANGED <<P, deck, players, human_players, table_cards, pot, ante,
                current_table_bet, current_game_type, game_state,
                dealer_position, human_has_bet, betting_order,
                current_betting_position, traversed_betting_order,
                first_game, betting_round, bet_around_blinds, winning_player,
                winning_hand, winning_rank, ai_players, game_number, clicks,
                winner, partial_deck, dealt, results>>

\* hand = poker.Hand(); shuffle(cards); hand.add_cards(cards)
AddCards ==
    /\ last_call.op = "init"
    /\ \E cards \in TestHands, k \in 1..NumOrders :
          hand' = HandAddCards(hand, Ordered(cards, k))
    /\ last_call' = [op |-> "add_cards", err |-> "none", ranks |-> <<>>,
                     calls |-> 0]
    /\ HandFrame

ScoreOps == {"add_cards", "score_5_or_7_card_hand"}

\* hand.score_5_or_7_card_hand()
ScoreHand ==
    /\ last_call.op \in ScoreOps
    /\ last_call.err = "none"
    /\ last_call.calls < MaxScores
    /\ \E r \in {score_5_or_7_card_hand(hand)} :
          /\ hand' = r.hand
          /\ last_call' = [op |-> "score_5_or_7_card_hand", err |-> r.err,
                           ranks |-> IF r.err = "none" THEN r.ranks ELSE <<>>,
                           calls |-> last_call.calls + 1]
    /\ HandFrame

NextScore == AddCards \/ ScoreHand

SpecScore == Init /\ [][NextScore]_vars

\* a new hand has been scored once
ScoredOnce ==
    /\ last_call.op = "score_5_or_7_card_hand"
    /\ last_call.calls = 1

\* the cards of rank r in a list of cards
OfRank(cards, r) == {i \in 1..Len(cards) : cards[i].rank = r}

\* the ranks of a list of cards that occur n times or more
RanksOf(cards, n) == {r \in CardRank : Cardinality(OfRank(cards, r)) >= n}

\* five cards of five consecutive ranks, the ace high or low
FiveInARow(cards) ==
    \/ \E low \in TWO..(ACE - 4) : RanksOf(cards, 1) = low..(low + 4)
    \/ RanksOf(cards, 1) = {ACE} \cup (TWO..(TWO + 3))

OneSuit(cards) == \A i \in 1..Len(cards) : cards[i].suit = cards[1].suit

\* the category of five cards by the rules of poker
PokerCategory(cards) ==
    IF FiveInARow(cards) /\ OneSuit(cards) THEN STRAIGHT_FLUSH
    ELSE IF RanksOf(cards, 4) # {} THEN FOUR_OF_A_KIND
    ELSE IF RanksOf(cards, 3) # {} /\ Cardinality(RanksOf(cards, 2)) = 2
    THEN FULL_HOUSE
    ELSE IF OneSuit(cards) THEN FLUSH
    ELSE IF FiveInARow(cards) THEN STRAIGHT
    ELSE IF RanksOf(cards, 3) # {} THEN THREE_OF_A_KIND
    ELSE IF Cardinality(RanksOf(cards, 2)) = 2 THEN TWO_PAIR
    ELSE IF RanksOf(cards, 2) # {} THEN PAIR
    ELSE HIGH_CARD

\* C22: after score_5_or_7_card_hand on a new hand of five cards, hand_rank
\* is the greatest of the returned ranks and is the category that the rules
\* of poker give the five cards.
C22_StandardCategory ==
    ScoredOnce /\ Len(hand.cards) = 5
    => /\ hand.hand_rank = SeqMax(last_call.ranks)
       /\ hand.hand_rank = PokerCategory(hand.cards)

\* C23: a second score_5_or_7_card_hand on a hand of 5 or 7 cards that was
\* scored once and not reset returns the same ranks and leaves the same
\* hand_rank, winning cards and significant high card as the first call.
C23_RescoreSame ==
    [][ScoredOnce /\ last_call.err = "none" /\ Len(hand.cards) \in {5, 7}
       /\ last_call'.op = "score_5_or_7_card_hand" /\ last_call'.calls = 2
       => /\ last_call'.err = "none"
          /\ last_call'.ranks = last_call.ranks
          /\ hand'.hand_rank = hand.hand_rank
          /\ hand'.winning_cards = hand.winning_cards
          /\ hand'.significant_high_card = hand.significant_high_card]_vars

\* the set of the ranks of a list
RankSet(ranks) == {ranks[i] : i \in 1..Len(ranks)}

\* the scoring of a new hand that was given the cards in the k-th order
ScoredInOrder(cards, k) ==
    score_5_or_7_card_hand(HandAddCards(HandInit, Ordered(cards, k)))

\* C24: for a hand of 5 or 7 cards, the set of the returned ranks and the
\* hand_rank are those of the same cards added in any other order.
C24_OrderFree ==
    ScoredOnce /\ Len(hand.cards) \in {5, 7}
    => \A k \in 1..NumOrders :
       \A r \in {ScoredInOrder(hand.cards, k)} :
          /\ RankSet(r.ranks) = RankSet(last_call.ranks)
          /\ r.hand.hand_rank = hand.hand_rank

\* C25: for a hand of 5 or 7 cards, TWO_PAIR is among the returned ranks
\* only if two different card ranks occur twice or more in the hand.
C25_TwoPairTwoRanks ==
    /\ ScoredOnce /\ Len(hand.cards) \in {5, 7}
    /\ TWO_PAIR \in RankSet(last_call.ranks)
    => Cardinality(RanksOf(hand.cards, 2)) >= 2

\* a scored hand of three or four cards of one rank and no other pair
C25_TripleAlone ==
    /\ ScoredOnce /\ Len(hand.cards) \in {5, 7}
    /\ RanksOf(hand.cards, 3) # {}
    /\ Cardinality(RanksOf(hand.cards, 2)) = 1
    /\ THREE_OF_A_KIND \in RankSet(last_call.ranks)
    /\ TWO_PAIR \notin RankSet(last_call.ranks)

\* the cards of a list that have the suit s
OfSuit(cards, s) == {i \in 1..Len(cards) : cards[i].suit = s}

\* five cards or more of the list share a suit
FiveOfASuit(cards) ==
    \E k \in 1..Len(Suit) : Cardinality(OfSuit(cards, Suit[k])) >= 5

\* the list holds five cards of consecutive rank in one suit, the ace high
\* or low
FiveInARowOfASuit(cards) ==
    \E k \in 1..Len(Suit) :
       \E run \in {low..(low + 4) : low \in TWO..(ACE - 4)}
                  \cup {{ACE} \cup (TWO..(TWO + 3))} :
          \A r \in run : \E i \in OfSuit(cards, Suit[k]) : cards[i].rank = r

\* FLUSH and STRAIGHT_FLUSH are returned only for hands that hold them
FlushesHeld ==
    ScoredOnce /\ Len(hand.cards) \in {5, 7}
    => /\ FLUSH \in RankSet(last_call.ranks) => FiveOfASuit(hand.cards)
       /\ STRAIGHT_FLUSH \in RankSet(last_call.ranks)
          => FiveInARowOfASuit(hand.cards)

\* C26: for a hand of 5 or 7 cards FLUSH is returned only if five cards
\* share a suit and STRAIGHT_FLUSH only if five cards of consecutive rank
\* share a suit; five cards of consecutive rank and of more than one suit
\* are scored STRAIGHT, without FLUSH and without STRAIGHT_FLUSH.
C26_FlushAndStraight ==
    /\ FlushesHeld
    /\ ScoredOnce /\ Len(hand.cards) = 5
       /\ FiveInARow(hand.cards) /\ ~OneSuit(hand.cards)
       => /\ hand.hand_rank = STRAIGHT
          /\ STRAIGHT \in RankSet(last_call.ranks)
          /\ FLUSH \notin RankSet(last_call.ranks)
          /\ STRAIGHT_FLUSH \notin RankSet(last_call.ranks)

\* C27: score_5_or_7_card_hand on a hand that holds neither 5 nor 7 cards,
\* the empty hand among them, raises an error and leaves the cards,
\* hand_rank, winning cards, significant high card and straight cards of the
\* hand as they were.
C27_CountRejected ==
    [][last_call'.op = "score_5_or_7_card_hand" /\ Len(hand.cards) \notin {5, 7}
       => /\ last_call'.err # "none"
          /\ hand'.cards = hand.cards
          /\ hand'.hand_rank = hand.hand_rank
          /\ hand'.winning_cards = hand.winning_cards
          /\ hand'.significant_high_card = hand.significant_high_card
          /\ hand'.straight_cards = hand.straight_cards]_vars

(***************************************************************************)
(* The deck of a probability calculation (src/poker.py:1513-1519 and       *)
(* 1549-1554): built once, then reset, shuffled and dealt from.            *)
(***************************************************************************)
MaxDeckOps == 4

\* cards_in_hand: none (a Deck), the pocket cards of probability_example.py,
\* four pocket cards
ThrowOuts ==
    {<<>>,
     <<Card(8, CLUBS), Card(7, CLUBS)>>,
     <<Card(TWO, HEARTS), Card(ACE, SPADES), Card(7, DIAMONDS),
       Card(8, CLUBS)>>}

\* the numbers of cards a caller asks for
DealCounts == {1, 5, 25}

\* everything but the deck of the calculation
DeckFrame ==
    UNCHANGED <<P, deck, players, human_players, table_cards, pot, ante,
                current_table_bet, current_game_type, game_state,
                dealer_position, human_has_bet, betting_order,
                current_betting_position, traversed_betting_order,
                first_game, betting_round, bet_around_blinds, winning_player,
                winning_hand, winning_rank, ai_players, game_number, clicks,
                winner, hand, results>>

DeckCall(op, err, num_cards) ==
    [op |-> op, err |-> err, num_cards |-> num_cards,
     calls |-> IF last_call.op = "init" THEN 0 ELSE last_call.calls + 1]

DeckOps == {"PartialDeck", "reset_deck", "shuffle", "deal"}

DeckInPlay ==
    /\ last_call.op \in DeckOps
    /\ last_call.op = "PartialDeck" => last_call.err = "none"
    /\ last_call.calls < MaxDeckOps

\* partial_deck = PartialDeck(cards_in_hand)
NewPartialDeck ==
    /\ last_call.op = "init"
    /\ \E throw_out_cards \in ThrowOuts :
       \E r \in {PartialDeck(throw_out_cards)} :
          /\ partial_deck' = r.deck
          /\ last_call' = DeckCall("PartialDeck", r.err, 0)
    /\ dealt' = <<>>
    /\ DeckFrame

\* partial_deck.reset_deck()
ResetDeck ==
    /\ DeckInPlay
    /\ partial_deck' = reset_deck(partial_deck)
    /\ dealt' = <<>>
    /\ last_call' = DeckCall("reset_deck", "none", 0)
    /\ DeckFrame

\* partial_deck.shuffle(): random.shuffle leaves the cards in some order
ShuffleDeck ==
    /\ DeckInPlay
    /\ \E k \in 1..NumOrders :
          partial_deck' = [partial_deck EXCEPT !.cards = Ordered(@, k)]
    /\ last_call' = DeckCall("shuffle", "none", 0)
    /\ UNCHANGED dealt
    /\ DeckFrame

\* partial_deck.deal(num_cards)
DealCards ==
    /\ DeckInPlay
    /\ \E num_cards \in DealCounts :
       \E r \in {DeckDeal(partial_deck.cards, num_cards)} :
          /\ partial_deck' = [partial_deck EXCEPT !.cards = r.cards]
          /\ dealt' = dealt \o r.dealt
          /\ last_call' = DeckCall("deal", r.err, num_cards)
    /\ DeckFrame

NextDeck == NewPartialDeck \/ ResetDeck \/ ShuffleDeck \/ DealCards

SpecDeck == Init /\ [][NextDeck]_vars

\* the cards of a list, as a set
CardSet(cards) == {cards[i] : i \in 1..Len(cards)}

\* the full card set of the deck: the 52 cards less the cards thrown out
FullSet == CardSet(DeckBuild) \ CardSet(partial_deck.throw_out_cards)

\* no card twice in a list
Distinct(cards) == Cardinality(CardSet(cards)) = Len(cards)

\* the cards in play and the cards dealt make up the full set
DeckWhole ==
    /\ Distinct(partial_deck.cards)
    /\ CardSet(partial_deck.cards) \cap CardSet(dealt) = {}
    /\ CardSet(partial_deck.cards) \cup CardSet(dealt) = FullSet
    /\ last_call.op = "reset_deck" => CardSet(partial_deck.cards) = FullSet

\* no deal has failed since the deck was last reset
NoneLost ==
    Len(partial_deck.cards) + Len(dealt) = Len(partial_deck._all_cards)

\* as long as every deal had the cards it was asked for, the deck is whole
WholeWhileDealt == last_call.op \in DeckOps /\ NoneLost => DeckWhole

\* C28: after any sequence of shuffle, deal and reset_deck the cards left in
\* the deck are pairwise distinct; they and the cards dealt since the last
\* reset share no card and together are the 52 cards less the cards thrown
\* out; after reset_deck the deck holds exactly that set.
C28_DeckWhole == last_call.op \in DeckOps => DeckWhole

\* C29: a deal that asks for more cards than the deck holds raises an error
\* and leaves the cards of the deck as they were.
C29_ShortDealRefused ==
    [][last_call'.op = "deal"
       /\ last_call'.num_cards > Len(partial_deck.cards)
       => /\ last_call'.err # "none"
          /\ partial_deck'.cards = partial_deck.cards]_vars

(***************************************************************************)
(* ProbabilityCalculator (src/poker.py:1527-1575): the results of the      *)
(* workers of the pool and their mean.  A worker's result is the number of *)
(* its hands that matched, in units of 1 / iterations; a mean is the exact *)
(* fraction <<numerator, denominator>> in the same unit.                   *)
(***************************************************************************)
ProcessCount == 3
MaxMatches == 3

\* what pool.starmap can return: a result of every worker
WorkerResults == [1..ProcessCount -> 0..MaxMatches]

RECURSIVE Sum(_)
\* sum() of Python
Sum(list) == IF list = <<>> THEN 0 ELSE list[1] + Sum(Tail(list))

\* no_zeros = [x for x in results if x != 0]
NoZeros(list) == SelectSeq(list, LAMBDA x : x # 0)

\* sum(no_zeros) / len(no_zeros)
Mean(no_zeros) ==
    IF Len(no_zeros) = 0
    THEN [err |-> "ZeroDivisionError", mean |-> <<0, 1>>]
    ELSE [err |-> "none", mean |-> <<Sum(no_zeros), Len(no_zeros)>>]

\* calculate_n_card_hand_probability, from the results of the pool on
calculate_n_card_hand_probability(list) ==
    IF Len(NoZeros(list)) = 0 THEN [err |-> "none", mean |-> <<0, 1>>]
    ELSE Mean(NoZeros(list))

\* calculate_hand_probability, from the results of the pool on
calculate_hand_probability(list) == Mean(NoZeros(list))

\* everything but the results of the pool
PoolFrame ==
    UNCHANGED <<P, deck, players, human_players, table_cards, pot, ante,
                current_table_bet, current_game_type, game_state,
                dealer_position, human_has_bet, betting_order,
                current_betting_position, traversed_betting_order,
                first_game, betting_round, bet_around_blinds, winning_player,
                winning_hand, winning_rank, ai_players, game_number, clicks,
                winner, hand, partial_deck, dealt>>

\* pc.calculate_hand_probability(iterations, hand_rank)
CalculateHandProbability ==
    /\ last_call.op = "init"
    /\ \E list \in WorkerResults :
       \E r \in {calculate_hand_probability(list)} :
          /\ results' = list
          /\ last_call' = [op |-> "calculate_hand_probability",
                           err |-> r.err, mean |-> r.mean]
    /\ PoolFrame

\* pc.calculate_n_card_hand_probability(iterations, cards, n, hand_rank)
CalculateNCardHandProbability ==
    /\ last_call.op = "init"
    /\ \E list \in WorkerResults :
       \E r \in {calculate_n_card_hand_probability(list)} :
          /\ results' = list
          /\ last_call' = [op |-> "calculate_n_card_hand_probability",
                           err |-> r.err, mean |-> r.mean]
    /\ PoolFrame

NextMean == CalculateHandProbability \/ CalculateNCardHandProbability

SpecMean == Init /\ [][NextMean]_vars

MeanOps == {"calculate_hand_probability", "calculate_n_card_hand_probability"}

\* the workers whose result is not zero
NonZeroWorkers == {i \in 1..Len(results) : results[i] # 0}

\* the orders in which the workers can finish
WorkerOrders ==
    {f \in [1..ProcessCount -> 1..ProcessCount] :
        \A i, j \in 1..ProcessCount : f[i] = f[j] => i = j}

\* the calculator of the last call, on a list of results
Calculated(list) ==
    IF last_call.op = "calculate_hand_probability"
    THEN calculate_hand_probability(list)
    ELSE calculate_n_card_hand_probability(list)

\* C30: both calculators return without an error; the value is the mean of
\* the results that are not zero, 0 when every result is zero, and the same
\* for every order of the results.
C30_MeanOfNonZero ==
    last_call.op \in MeanOps
    => /\ last_call.err = "none"
       /\ NonZeroWorkers = {} => last_call.mean[1] = 0
       /\ NonZeroWorkers # {}
          => last_call.mean[1] * Cardinality(NonZeroWorkers)
             = Sum(results) * last_call.mean[2]
       /\ \A f \in WorkerOrders :
             Calculated([i \in 1..ProcessCount |-> results[f[i]]]).mean
             = last_call.mean

(***************************************************************************)
(* A session of several games (src/casino.py:224-273): the Start Poker     *)
(* Game button starts the next game when a game has ended, the human       *)
(* answers a turn with the call, with the whole stack or with a fold.      *)
(***************************************************************************)
MaxLateClicks == 7

\* the Start Poker Game button, pressed again once a game has ended
LateStart ==
    /\ ~ProgressPending
    /\ clicks < MaxLateClicks
    /\ game_number < MaxGames
    /\ game_number > 0 => Terminal
    /\ \E shuffled \in Shuffles :
       \E dealer_draw \in (IF first_game THEN 0..NumAi ELSE {0}) :
       \E coinsI \in CoinsInitial :
       \E coinsF \in CoinsFinal :
       \E r \in {start_poker(T, shuffled, dealer_draw, coinsI, coinsF)} :
          BecomesAfter("new_game", r)
    /\ clicks' = clicks + 1
    /\ UNCHANGED <<winner, hand, partial_deck, dealt, results>>

\* button_bet with what is missing to the call or with the whole stack
LateBet ==
    /\ game_number > 0
    /\ ~ProgressPending
    /\ ~RoundsCapped
    /\ \E amount \in {ToCall, P[Human].chips} :
       \E r \in {human_bet(T, amount)} : BecomesAfter("human_bet", r)
    /\ UNCHANGED <<clicks, winner, hand, partial_deck, dealt, results>>

\* button_fold of a human that has not folded
LateFold ==
    /\ game_number > 0
    /\ ~ProgressPending
    /\ ~RoundsCapped
    /\ ~P[Human].folded
    /\ Becomes(HumanFold(T))
    /\ last_call' = Call("fold", "none")
    /\ UNCHANGED <<clicks, winner, hand, partial_deck, dealt, results>>

\* the call of progress_game that ends the handler
LateProgress ==
    /\ ProgressPending
    /\ clicks < MaxLateClicks
    /\ \E coinsI \in CoinsInitial :
       \E coinsF \in CoinsFinal :
       \E r \in {progress_game(T, coinsI, coinsF)} :
          BecomesAfter("progress_game", r)
    /\ clicks' = clicks + 1
    /\ UNCHANGED <<winner, hand, partial_deck, dealt, results>>

LateNext == LateStart \/ LateBet \/ LateFold \/ LateProgress

SpecLate == Init /\ [][LateNext]_vars

\* the seats of the betting order that have not folded and hold chips
SeatsToAct(t) ==
    {q \in AllPlayers :
        /\ \E k \in 1..Len(t.betting_order) : t.betting_order[k] = q
        /\ ~t.P[q].folded
        /\ t.P[q].chips > 0}

\* C31: once every seat that has neither folded nor run out of chips has
\* matched the table bet, the round counts as called, whatever the bets of
\* the seats that are all-in.
C31_AllInDoesNotBlock ==
    /\ game_number > 0
    /\ \A q \in SeatsToAct(T) : P[q].current_bet = current_table_bet
    => _check_table_call(T)

RECURSIVE PassSeats(_, _, _)
\* the seats for which a pass over order[k:] calls determine_bet: folded
\* seats are passed over, the first human that has not folded ends the pass
PassSeats(t, order, k) ==
    IF k > Len(order) THEN {}
    ELSE IF t.P[order[k]].folded THEN PassSeats(t, order, k + 1)
    ELSE IF t.P[order[k]].human THEN {}
    ELSE {order[k]} \cup PassSeats(t, order, k + 1)

\* the seats of the final pass: rest_of_players
FinalPassSeats(t) ==
    PassSeats(t, SliceFrom(t.betting_order, current_betting_position_get(t)),
              1)

\* the place of the human in the betting order
HumanPlace == CHOOSE k \in 1..Len(betting_order) : betting_order[k] = Human

\* the AI seats behind the human in the betting order that have not folded
SeatsBehindHuman ==
    {betting_order[k] : k \in {j \in 1..Len(betting_order) :
        j > HumanPlace /\ ~P[betting_order[j]].folded}}

\* the next progress_game runs the final pass
FinalPassDue ==
    /\ ProgressPending
    /\ human_has_bet
    /\ ~(_check_table_call(T) /\ betting_round # 0)

\* C32: the final pass that follows an action of the human calls
\* determine_bet for every AI seat behind the human that has not folded,
\* also when seats before the human have folded.
C32_FinalPassCoversRest ==
    FinalPassDue => SeatsBehindHuman \subseteq FinalPassSeats(T)


\* a call of new_game or progress_game has returned from a betting pass that
\* stopped at the human seat: the initial pass sets human_has_bet on its
\* return, and a showdown is the only other way to return with it set
PassStoppedAtHuman ==
    /\ last_call.op \in {"new_game", "progress_game"}
    /\ last_call.err = "none"
    /\ human_has_bet
    /\ game_state # SHOWDOWN
    /\ betting_order # <<>>
    /\ ~P[Human].folded

\* C33: whenever a betting pass has stopped at the human seat and the call
\* has returned, the betting cursor is the index of the human seat in the
\* betting order (counted from 0, as the cursor is), also when folded seats
\* precede the human.
C33_CursorAtHuman ==
    PassStoppedAtHuman => current_betting_position = HumanPlace - 1


\* What follows `if table_call:` at the table t up to the next call of
\* progress_game: the bets are cleared, the phase changes, the cards of the
\* phase are dealt, the round is reset; calls tells whether progress_game
\* is called again (not after an error, not at the showdown, not with
\* fewer than two seats left), t is the table it is called with
NextSweep(t) ==
    LET t1 == reset_current_player_bets(t)
        t2 == DealToTable(
                  [t1 EXCEPT !.game_state =
                      IF @ = PRE_FLOP_BET THEN POST_FLOP_BET
                      ELSE IF @ = POST_FLOP_BET THEN POST_TURN_BET
                      ELSE POST_RIVER_BET],
                  IF t1.game_state = PRE_FLOP_BET THEN 3 ELSE 1)
        t3 == [t2 EXCEPT !.betting_round = 0, !.current_table_bet = 0,
                         !.human_has_bet = FALSE]
    IN [calls |-> /\ t.game_state \in {PRE_FLOP_BET, POST_FLOP_BET, POST_TURN_BET}
                  /\ t2.err = "none"
                  /\ Len(_check_for_players_still_in_the_game(t3)) > 1,
        t |-> t3]

RECURSIVE AdvanceMoments(_, _, _)
\* The tables at which a call of progress_game finds `if table_call:` true,
\* its own and those of the calls it makes: the call after a final pass
\* that was not called, and the call after the deal of a phase.
AdvanceMoments(t, coinsI, coinsF) ==
    IF current_betting_position_get(t) >= Len(t.betting_order) THEN {}
    ELSE
    (CHOOSE r \in {
    (CHOOSE r \in {
    (CHOOSE r \in {
       (IF ~skip /\ t.human_has_bet /\ tf.err = "none" /\ ~_check_table_call(tf)
        THEN AdvanceMoments(tf, coinsI, coinsF) ELSE {})
       \cup
       (IF ~b.table_call THEN {}
        ELSE {b.t} \cup
             (CHOOSE r \in {
                IF n.calls THEN AdvanceMoments(n.t, coinsI, coinsF) ELSE {}
              : n \in {NextSweep(b.t)}} : TRUE))
     : b \in {BettingBlock(t, coinsI, coinsF)}} : TRUE)
     : tf \in {IF skip \/ ~t.human_has_bet THEN t
               ELSE [_bet_around_final(t, coinsF) EXCEPT
                         !.human_has_bet = FALSE, !.betting_round = @ + 1]}} : TRUE)
     : skip \in {_check_table_call(t) /\ t.betting_round # 0}} : TRUE)

\* every seat of t that has not folded has the table bet as its current bet
BetsMatched(t) ==
    \A q \in LiveSeats(t) : t.P[q].current_bet = t.current_table_bet

\* C34: the phase advances only at a moment when every seat that has not
\* folded has a current bet equal to the table bet: whatever the buttons
\* did before, the call of progress_game that ends a button handler, with
\* any draws of the AI seats, meets `if table_call:` true only at a table
\* whose seats have matched.
C34_AdvanceOnlyWhenCalled ==
    ProgressPending =>
       \A coinsI \in CoinsInitial : \A coinsF \in CoinsFinal :
       \A m \in AdvanceMoments(T, coinsI, coinsF) : BetsMatched(m)

\* a call of progress_game has dealt the cards of a phase in a game that at
\* least two seats are still in
C34_PhaseAdvanced ==
    /\ last_call.op = "progress_game"
    /\ last_call.err = "none"
    /\ game_state \in {POST_FLOP_BET, POST_TURN_BET, POST_RIVER_BET, SHOWDOWN}
    /\ Len(table_cards) >= 3
    /\ Cardinality(LiveSeats(T)) >= 2


\* C35: the check of the seats that remain precedes the progression: a call
\* of progress_game changes the phase (and deals its community cards) only
\* at a table where at least two seats have not folded.
C35_TwoSeatsBeforeAdvance ==
    ProgressPending =>
       \A coinsI \in CoinsInitial : \A coinsF \in CoinsFinal :
       \A m \in AdvanceMoments(T, coinsI, coinsF) :
          m.game_state # SHOWDOWN => Cardinality(LiveSeats(m)) >= 2


\* no seat has a current bet above the table bet, and some seat has it
TableBetIsLargest ==
    /\ \A q \in AllPlayers : P[q].current_bet <= current_table_bet
    /\ \E q \in AllPlayers : P[q].current_bet = current_table_bet

\* C36: between table operations the table bet is at least every seat's
\* current bet and is the largest current bet of the phase, and within a
\* phase of a game it never decreases.
C36_TableBetIsLargest ==
    [][/\ game_number' > 0 => TableBetIsLargest'
       /\ game_number' = game_number /\ game_state' = game_state
          => current_table_bet' >= current_table_bet]_vars


(***************************************************************************)
(* Hand.score_partial_hand (src/poker.py:568-668) on the hands that a test *)
(* builds.                                                                 *)
(***************************************************************************)
\* the greatest element of a set of indexes that is not empty
LastOf(S) == CHOOSE i \in S : \A j \in S : j <= i

\* tmp[i].rank == tmp[i+1].rank == tmp[i+2].rank == tmp[i+3].rank: the
\* chain stops at the first comparison that is false, and an index past
\* the list raises IndexError
FourAt(tmp, i) ==
    IF tmp[i].rank # tmp[i + 1].rank THEN "no"
    ELSE IF i + 2 > Len(tmp) THEN "IndexError"
    ELSE IF tmp[i + 1].rank # tmp[i + 2].rank THEN "no"
    ELSE IF i + 3 > Len(tmp) THEN "IndexError"
    ELSE IF tmp[i + 2].rank # tmp[i + 3].rank THEN "no"
    ELSE "yes"

\* the loop for i in range(len(tmp)-1) of the four of a kind: the index of
\* the last hit before the loop ends or raises, and whether it raises
FourScan(tmp) ==
    LET raises == {i \in 1..(Len(tmp) - 1) : FourAt(tmp, i) = "IndexError"}
        stop == IF raises = {} THEN Len(tmp)
                ELSE CHOOSE i \in raises : \A j \in raises : i <= j
        hits == {i \in 1..(Len(tmp) - 1) : i < stop /\ FourAt(tmp, i) = "yes"}
    IN [hit |-> IF hits = {} THEN 0 ELSE LastOf(hits),
        err |-> IF raises = {} THEN "none" ELSE "IndexError"]

\* score_partial_hand(cards=None): the hand after the call, the returned
\* hand_rank and significant_high_card, and the exception if one is raised
score_partial_hand(h) ==
    IF h.cards = <<>>
    THEN \* tmp[-1] raises IndexError after hand_rank was set
         [hand |-> [h EXCEPT !.hand_rank = HIGH_CARD],
          hand_rank |-> INITIAL, significant_high_card |-> None,
          err |-> "IndexError"]
    ELSE
    LET sorted == SortByRank(h.cards)
        h0 == [h EXCEPT !.hand_rank = HIGH_CARD,
                        !.significant_high_card = sorted[Len(sorted)],
                        !.winning_cards = Append(@, sorted[Len(sorted)]),
                        !.straight_cards =
                            IF h.wc_alias THEN Append(@, sorted[Len(sorted)])
                            ELSE @]
        \* check for pairs: every place i with tmp[i].rank == tmp[i+1].rank
        \* counts
        pairs == AllRuns(sorted, 2)
        h1 == IF pairs = {} THEN h0
              ELSE [h0 EXCEPT
                      !.hand_rank = IF Cardinality(pairs) = 2 THEN TWO_PAIR
                                    ELSE PAIR,
                      !.significant_high_card = sorted[LastOf(pairs)],
                      !.winning_cards = <<sorted[LastOf(pairs)],
                                          sorted[LastOf(pairs) + 1]>>,
                      !.wc_alias = FALSE]
        \* check for three of a kind
        threes == AllRuns(sorted, 3)
        h2 == IF threes = {} THEN h1
              ELSE [h1 EXCEPT
                      !.hand_rank = THREE_OF_A_KIND,
                      !.significant_high_card = sorted[LastOf(threes)],
                      !.winning_cards = SubSeq(sorted, LastOf(threes),
                                               LastOf(threes) + 2),
                      !.wc_alias = FALSE]
        \* if len(unique_rank) != len(tmp): tmp = unique_cards
        tmp == UniqueRankCards(sorted)
        \* check for straight: pattern [1, 1, 1]
        s4 == FirstStraight(tmp, 4)
        h3 == IF s4 = 0 THEN h2
              ELSE [h2 EXCEPT !.hand_rank = STRAIGHT,
                              !.straight_cards = SubSeq(tmp, s4, s4 + 3),
                              !.winning_cards = SubSeq(tmp, s4, s4 + 3),
                              !.wc_alias = TRUE]
        \* check for flush: len(check) >= 4
        f4 == FirstFlushSuit(tmp, 4)
        h4 == IF f4 = 0 THEN h3
              ELSE [h3 EXCEPT !.hand_rank = FLUSH,
                              !.winning_cards = SelectSuit(tmp, Suit[f4]),
                              !.wc_alias = FALSE]
        \* check for four of a kind
        four == FourScan(tmp)
        h5 == IF four.hit = 0 THEN h4
              ELSE [h4 EXCEPT !.hand_rank = FOUR_OF_A_KIND,
                              !.significant_high_card = tmp[four.hit],
                              !.winning_cards = SubSeq(tmp, four.hit,
                                                       four.hit + 3),
                              !.wc_alias = FALSE]
        \* check for straight flush
        h6 == IF s4 # 0 /\ f4 # 0
                 /\ \A i \in 1..Len(h5.straight_cards) :
                       h5.straight_cards[i].suit = h5.straight_cards[1].suit
              THEN [h5 EXCEPT !.hand_rank = STRAIGHT_FLUSH,
                              !.winning_cards = h5.straight_cards,
                              !.wc_alias = TRUE]
              ELSE h5
    IN IF four.err # "none"
       THEN [hand |-> h5, hand_rank |-> INITIAL,
             significant_high_card |-> None, err |-> four.err]
       ELSE [hand |-> h6, hand_rank |-> h6.hand_rank,
             significant_high_card |-> h6.significant_high_card,
             err |-> "none"]

\* hand.score_partial_hand() on the hand of the test
ScorePartialHand ==
    /\ last_call.op = "add_cards"
    /\ \E r \in {score_partial_hand(hand)} :
          /\ hand' = r.hand
          /\ last_call' = [op |-> "score_partial_hand", err |-> r.err,
                           ranks |-> IF r.err = "none" THEN <<r.hand_rank>>
                                     ELSE <<>>,
                           calls |-> 1]
    /\ HandFrame

NextPartial == AddCards \/ ScorePartialHand

SpecPartial == Init /\ [][NextPartial]_vars

\* the list holds four cards of consecutive rank
FourInARow(cards) ==
    \E low \in TWO..(ACE - 3) : RanksOf(cards, 1) = low..(low + 3)

\* the highest pattern that four cards hold
PartialCategory(cards) ==
    IF FourInARow(cards) /\ OneSuit(cards) THEN STRAIGHT_FLUSH
    ELSE IF RanksOf(cards, 4) # {} THEN FOUR_OF_A_KIND
    ELSE IF OneSuit(cards) THEN FLUSH
    ELSE IF FourInARow(cards) THEN STRAIGHT
    ELSE IF RanksOf(cards, 3) # {} THEN THREE_OF_A_KIND
    ELSE IF Cardinality(RanksOf(cards, 2)) = 2 THEN TWO_PAIR
    ELSE IF RanksOf(cards, 2) # {} THEN PAIR
    ELSE HIGH_CARD

\* C37: score_partial_hand on a hand of four cards returns, and leaves as
\* hand_rank, the highest pattern the four cards hold: FOUR_OF_A_KIND for
\* four of one rank, THREE_OF_A_KIND for three, TWO_PAIR for two pairs,
\* STRAIGHT for four consecutive ranks, FLUSH for four of one suit,
\* STRAIGHT_FLUSH for both.
C37_PartialCategory ==
    last_call.op = "score_partial_hand" /\ Len(hand.cards) = 4
    => /\ last_call.err = "none"
       /\ last_call.ranks = <<PartialCategory(hand.cards)>>
       /\ hand.hand_rank = PartialCategory(hand.cards)


\* the list holds five cards of consecutive rank, from 2 up to the ace, in
\* one suit
RunOfASuit(cards) ==
    \E k \in 1..Len(Suit) : \E low \in TWO..(ACE - 4) :
       \A r \in low..(low + 4) :
          \E i \in OfSuit(cards, Suit[k]) : cards[i].rank = r

\* C38: a hand of 7 cards that holds five cards of consecutive rank (2 to
\* ace) in one suit is scored STRAIGHT_FLUSH, whatever the two other cards
\* are: a card of a rank inside the run, or a card of another suit just
\* below the run, among them.
C38_StraightFlushOfSeven ==
    ScoredOnce /\ Len(hand.cards) = 7 /\ RunOfASuit(hand.cards)
    => /\ last_call.err = "none"
       /\ hand.hand_rank = STRAIGHT_FLUSH
       /\ STRAIGHT_FLUSH \in RankSet(last_call.ranks)


\* the showdown of the game has recorded a winner and paid the pot
ShowdownPaid == game_state = SHOWDOWN /\ winning_player # 0

\* C39: the pot is paid at most once per game: once the showdown has paid
\* its winner, no progress_game, human_bet or fold of the same game changes
\* the chips of any player or the recorded winner.
C39_PaidOnce ==
    [][ShowdownPaid /\ game_number' = game_number
       => /\ \A q \in AllPlayers : P'[q].chips = P[q].chips
          /\ winning_player' = winning_player]_vars


\* the table at the last statement of new_game, self.progress_game(), in
\* the game that the Start Poker Game button starts: the table of the first
\* betting sweep of the game
FirstSweepTable(shuffled, dealer_draw) ==
    NewGameDealt(T, OMAHA, Ante, AiPlayers, HumanPlayers, shuffled,
                 dealer_draw)

\* C40: at the start of the first betting sweep of every game, the first
\* one and every game after a game that has ended, the betting round is 0
\* and human_has_bet is false.
C40_FirstSweepFresh ==
    (game_number = 0 \/ Terminal) /\ ~ProgressPending
    => \A shuffled \in Shuffles :
       \A dealer_draw \in (IF first_game THEN 0..NumAi ELSE {0}) :
       \A d \in {FirstSweepTable(shuffled, dealer_draw)} :
          d.err = "none" => d.betting_round = 0 /\ ~d.human_has_bet

=============================================================================
